---- MODULE Spec2Model ----
(***************************************************************************)
(* Model of the chain driver, the Metropolis and dragging engines and the  *)
(* convergence checkpoint of cobaya's mcmc sampler                         *)
(* (src/cobaya/samplers/mcmc/mcmc.py).                                     *)
(*                                                                         *)
(* Spec        : one chain, no MPI, the three sampling modes.              *)
(* SpecMPI     : NChains chains under MPI, plain Metropolis engine.        *)
(* SpecMPIFair : SpecMPI with every rank and the checkpoint scheduled.     *)
(* SpecNew     : initialise() over the mode and covmat options, up to the  *)
(*               first point of run().                                     *)
(***************************************************************************)
EXTENDS Integers, Sequences, FiniteSets, TLC

VARIABLES
    cfg,    \* o: the sampler's options; d: what initialise derives from them
    chain,  \* per MPI rank: the sampler object's fields and the position in run()
    obs,    \* per MPI rank: what an observer of the run has counted so far
    ckpt    \* what an observer has seen of the parallel checkpoints

vars == <<cfg, chain, obs, ckpt>>

(***************************************************************************)
(* Bounds of the model.                                                    *)
(***************************************************************************)
\* largest drag_interp_steps the configurations use
MaxDrag == 2
\* engine invocations per chain before the model stops following a run
MaxSteps == 4
\* largest fast coordinate of the prior box (the slow one is 0..1)
MaxF == 2
\* max_samples of the configurations
MaxSamples == 2
\* number of chains of the parallel specification
NChains == 2

(***************************************************************************)
(* Floating point values: log-posteriors are IEEE doubles, so a value is   *)
(* finite, -inf, +inf or NaN.  Finite values are integers; the evaluator   *)
(* returns multiples of Unit so that the interpolation i/(n+1) and the     *)
(* division by n of the dragging engine stay exact.                        *)
(***************************************************************************)
RECURSIVE Fact(_)
Fact(n) ==
    IF n <= 1 THEN 1 ELSE n * Fact(n - 1)

Unit == Fact(MaxDrag + 1)

Fin(v) == [k |-> "fin", v |-> v]
NINF == [k |-> "ninf", v |-> 0]
PINF == [k |-> "pinf", v |-> 0]
NAN == [k |-> "nan", v |-> 0]

IsFinite(a) == a.k = "fin"

\* a == b on doubles
FEq(a, b) ==
    /\ a.k # "nan"
    /\ b.k # "nan"
    /\ a = b

\* a > b on doubles
FGt(a, b) ==
    CASE a.k = "nan" \/ b.k = "nan" -> FALSE
      [] a.k = "pinf" -> b.k # "pinf"
      [] a.k = "ninf" -> FALSE
      [] b.k = "pinf" -> FALSE
      [] b.k = "ninf" -> TRUE
      [] OTHER -> a.v > b.v

FNeg(a) ==
    CASE a.k = "fin" -> Fin(0 - a.v)
      [] a.k = "pinf" -> NINF
      [] a.k = "ninf" -> PINF
      [] OTHER -> NAN

\* a + b on doubles
FAdd(a, b) ==
    CASE a.k = "nan" \/ b.k = "nan" -> NAN
      [] a.k = "fin" /\ b.k = "fin" -> Fin(a.v + b.v)
      [] a.k = "fin" -> b
      [] b.k = "fin" -> a
      [] a.k = b.k -> a
      [] OTHER -> NAN

\* a - b on doubles
FSub(a, b) == FAdd(a, FNeg(b))

\* (num/den) * a for a fraction num/den > 0
FScale(num, den, a) ==
    IF a.k = "fin" THEN Fin((a.v * num) \div den) ELSE a

(***************************************************************************)
(* The posterior evaluator (external collaborator): a pure function of the *)
(* point.  A point is <<slow, fast>>; outside the prior box the            *)
(* log-posterior is -inf, inside it is given by a fixed table that holds   *)
(* finite values, -inf, +inf and NaN.                                      *)
(***************************************************************************)
SlowVals == 0 .. 1
FastVals == 0 .. MaxF
Box == SlowVals \X FastVals
\* what a proposal can reach: the box and one step below it
Reach == (-1 .. 1) \X (-1 .. MaxF)

\* the derived parameters the evaluator returns with the log-posterior of x are
\* a function of x: they are represented by x itself
derived_at(x) == x

logposterior(x) ==
    IF x \notin Box THEN NINF
    ELSE LET i == (x[1] * (MaxF + 1) + x[2]) % 6
         IN  CASE i = 0 -> Fin(0)
               [] i = 1 -> Fin(Unit)
               [] i = 2 -> PINF
               [] i = 3 -> Fin(0 - Unit)
               [] i = 4 -> NAN
               [] OTHER -> NINF

\* np.random.exponential(): a finite draw >= 0
ExpDraws == {Fin(0), Fin(Unit), Fin(2 * Unit)}

(***************************************************************************)
(* Options and initialise().                                               *)
(***************************************************************************)
\* np.round(num/den) for num >= 0, den > 0: round half to even
Round(num, den) ==
    LET q == num \div den
        r == num % den
    IN  IF 2 * r < den THEN q
        ELSE IF 2 * r > den THEN q + 1
        ELSE IF q % 2 = 0 THEN q ELSE q + 1

RECURSIVE SeqSum(_)
SeqSum(s) ==
    IF s = <<>> THEN 0 ELSE Head(s) + SeqSum(Tail(s))

SeqRange(s) == {s[i] : i \in 1 .. Len(s)}

SetMin(S) == CHOOSE m \in S : \A x \in S : m <= x
SetMax(S) == CHOOSE m \in S : \A x \in S : m >= x

(***************************************************************************)
(* initial_proposal_covmat().  Variances are in units of 1/100, proposal   *)
(* widths in units of 1/10, so that the square of a width is a variance.   *)
(* A matrix under construction maps <<i, j>> to a float; a loaded one is a *)
(* sequence of rows of numbers.                                            *)
(***************************************************************************)
\* x**2 on floats
FSquare(a) ==
    CASE a.k = "fin" -> Fin(a.v * a.v)
      [] a.k = "nan" -> NAN
      [] OTHER -> PINF

\* list.index(x): the first position of x
PyIndex(seq, x) == SetMin({i \in 1 .. Len(seq) : seq[i] = x})

\* np.diag([np.nan]*d)
NanDiag(d) ==
    [ij \in (1 .. d) \X (1 .. d) |-> IF ij[1] = ij[2] THEN NAN ELSE Fin(0)]

\* np.allclose(m.T, m) for a square matrix of exact numbers
Symmetric(m) ==
    \A i, j \in 1 .. Len(m) : m[i][j] = m[j][i]

\* the matrix without its first row and its column j
Minor(m, j) ==
    [r \in 1 .. (Len(m) - 1) |->
        [c \in 1 .. (Len(m) - 1) |-> m[r + 1][IF c < j THEN c ELSE c + 1]]]

RECURSIVE Det(_)
Det(m) ==
    IF Len(m) = 0 THEN 1
    ELSE LET term(j) == (IF j % 2 = 1 THEN 1 ELSE -1) * m[1][j] * Det(Minor(m, j))
         IN  SeqSum([j \in 1 .. Len(m) |-> term(j)])

\* the leading k x k block of m
Leading(m, k) == [r \in 1 .. k |-> [c \in 1 .. k |-> m[r][c]]]

\* np.all(np.linalg.eigvals(m) > 0) for a symmetric m: every leading
\* principal minor is positive
AllEigvalsPositive(m) ==
    \A k \in 1 .. Len(m) : Det(Leading(m, k)) > 0

\* the outcome of initial_proposal_covmat when it raises
CovmatRaises(exception) ==
    [exception |-> exception, covmat |-> <<>>, early |-> FALSE]

\* np.loadtxt (ndmin = 0) squeezes the axes of length one: the shape of what
\* it returns for a file holding the rows of a matrix
loadtxt_shape(matrix) ==
    SelectSeq(<<Len(matrix), Len(matrix[1])>>, LAMBDA length : length # 1)

\* lines 285-313: the names, the matrix and the shape of the external covmat
load_covmat(o) ==
    LET c == o.covmat
        loaded(names, matrix, shape) ==
            [exception |-> "", loaded_params |-> names, loaded_covmat |-> matrix,
             shape |-> shape]
        raises(exception) ==
            [exception |-> exception, loaded_params |-> <<>>, loaded_covmat |-> <<>>,
             shape |-> <<>>]
    IN  CASE c.kind = "file" ->
                IF ~c.readable THEN raises("HandledException")
                ELSE IF c.header = "" THEN raises("IndexError")
                ELSE IF c.header # "#" THEN raises("HandledException")
                ELSE loaded(c.names, c.matrix, loadtxt_shape(c.matrix))
          [] c.kind = "array" ->
                IF c.covmat_params = <<>> THEN raises("HandledException")
                ELSE loaded(c.covmat_params, c.matrix,
                            <<Len(c.matrix), Len(c.matrix[1])>>)
          [] OTHER -> loaded(<<>>, <<>>, <<>>)

\* prior.reference_covmat().diagonal(): the variance of the reference pdf where
\* one is defined, that of the prior elsewhere
reference_covmat_diagonal(o) ==
    [i \in 1 .. Len(o.params) |->
        LET info == o.info[o.params[i]]
        IN  IF info.ref.k = "nan" THEN info.prior ELSE info.ref]

\* the filling of the gaps with the earlier learning asked for only when a
\* declared proposal width has filled one
fill_gaps_early_from_width(o, covmat) ==
    LET d == Len(o.params)
        isnan(m) == {i \in 1 .. d : m[<<i, i>>].k = "nan"}
        where_nan == isnan(covmat)
        from_proposal ==
            [ij \in DOMAIN covmat |->
                IF ij[1] = ij[2] /\ ij[1] \in where_nan
                THEN FSquare(o.info[o.params[ij[1]]].proposal)
                ELSE covmat[ij]]
        after_proposal == IF where_nan # {} THEN from_proposal ELSE covmat
        where_nan_2 == isnan(after_proposal)
        from_reference ==
            [ij \in DOMAIN covmat |->
                IF ij[1] = ij[2] /\ ij[1] \in where_nan_2
                THEN reference_covmat_diagonal(o)[ij[1]]
                ELSE after_proposal[ij]]
        filled == IF where_nan_2 # {} THEN from_reference ELSE after_proposal
    IN  IF \E ij \in DOMAIN filled : filled[ij].k = "nan"
        THEN CovmatRaises("AssertionError")
        ELSE [exception |-> "", covmat |-> filled, early |-> where_nan_2 # where_nan]

\* lines 356-373: the gaps of the diagonal filled from the proposal widths,
\* then from the reference (or prior) variances
fill_gaps(o, covmat) ==
    LET d == Len(o.params)
        isnan(m) == {i \in 1 .. d : m[<<i, i>>].k = "nan"}
        where_nan == isnan(covmat)
        from_proposal ==
            [ij \in DOMAIN covmat |->
                IF ij[1] = ij[2] /\ ij[1] \in where_nan
                THEN FSquare(o.info[o.params[ij[1]]].proposal)
                ELSE covmat[ij]]
        after_proposal == IF where_nan # {} THEN from_proposal ELSE covmat
        where_nan_2 == isnan(after_proposal)
        from_reference ==
            [ij \in DOMAIN covmat |->
                IF ij[1] = ij[2] /\ ij[1] \in where_nan_2
                THEN reference_covmat_diagonal(o)[ij[1]]
                ELSE after_proposal[ij]]
        filled == IF where_nan_2 # {} THEN from_reference ELSE after_proposal
    IN  IF \E ij \in DOMAIN filled : filled[ij].k = "nan"
        THEN CovmatRaises("AssertionError")
        ELSE [exception |-> "", covmat |-> filled, early |-> where_nan # {}]

initial_proposal_covmat(o) ==
    LET params == o.params
        d == Len(params)
        l == load_covmat(o)
        loaded_params == l.loaded_params
        loaded_covmat == l.loaded_covmat
        loaded_params_used == SeqRange(loaded_params) \cap SeqRange(params)
        used(i) == params[i] \in loaded_params_used
        with_loaded ==
            [ij \in (1 .. d) \X (1 .. d) |->
                IF used(ij[1]) /\ used(ij[2])
                THEN Fin(loaded_covmat[PyIndex(loaded_params, params[ij[1]])]
                                      [PyIndex(loaded_params, params[ij[2]])])
                ELSE NanDiag(d)[ij]]
    IN  IF l.exception # "" THEN CovmatRaises(l.exception)
        ELSE IF o.covmat.kind = "none" THEN fill_gaps(o, NanDiag(d))
        ELSE IF Len(loaded_params) # Cardinality(SeqRange(loaded_params))
             THEN CovmatRaises("HandledException")
        ELSE IF l.shape = <<>> THEN CovmatRaises("IndexError")
        ELSE IF Len(loaded_params) # l.shape[1]
             THEN CovmatRaises("HandledException")
        ELSE IF ~(Symmetric(loaded_covmat) /\ AllEigvalsPositive(loaded_covmat))
             THEN CovmatRaises("HandledException")
        ELSE IF loaded_params_used = {} THEN CovmatRaises("HandledException")
        ELSE fill_gaps(o, with_loaded)

\* select_mode dividing the oversampled total by the number of blocks
select_mode_per_block(o) ==
    LET speeds == o.speeds
        blocks == o.blocks
        d == SeqSum([i \in 1 .. Len(blocks) |-> Len(blocks[i])])
        dragging == o.drag_interp_steps # 0 \/ o.drag_nfast_times[1] # 0
        factors == [i \in 1 .. Len(speeds) |-> Round(speeds[i], speeds[1])]
        first_fast == SetMin({i \in 1 .. Len(speeds) : speeds[i] > o.max_speed_slow})
        i_last_slow_block == first_fast - 1
        n_fast == SeqSum([i \in 1 .. Len(blocks) |->
                           IF i > i_last_slow_block THEN Len(blocks[i]) ELSE 0])
        base == [err |-> FALSE, burn_in_left |-> o.burn_in + 1,
                 engine |-> "metropolis", ems_num |-> o.max_samples, ems_den |-> 1,
                 n_slow |-> d, drag_interp_steps |-> o.drag_interp_steps,
                 drag_interp_float |-> FALSE,
                 oversampling_factors |-> <<>>,
                 mode |-> "plain"]
        error == [base EXCEPT !.err = TRUE]
    IN  IF o.oversample /\ dragging THEN error
        ELSE IF o.oversample THEN
            IF Cardinality(SeqRange(factors)) = 1 THEN error
            ELSE [base EXCEPT
                    !.mode = "oversample",
                    !.oversampling_factors = factors,
                    !.ems_num = SeqSum([i \in 1 .. Len(blocks) |->
                                         Len(blocks[i]) * factors[i]]),
                    !.ems_den = Len(blocks),
                    !.n_slow = Len(blocks[1])]
        ELSE IF dragging THEN
            IF Cardinality(SeqRange(speeds)) = 1 THEN error
            ELSE IF o.drag_nfast_times[1] # 0 /\ o.drag_interp_steps # 0 THEN error
            ELSE IF \/ o.max_speed_slow < SetMin(SeqRange(speeds))
                    \/ o.max_speed_slow >= SetMax(SeqRange(speeds)) THEN error
            ELSE [base EXCEPT
                    !.mode = "drag",
                    !.engine = "dragging",
                    !.n_slow = SeqSum([i \in 1 .. Len(blocks) |->
                                        IF i <= i_last_slow_block
                                        THEN Len(blocks[i]) ELSE 0]),
                    !.drag_interp_steps =
                        IF o.drag_nfast_times[1] # 0
                        THEN Round(o.drag_nfast_times[1] * n_fast,
                                   o.drag_nfast_times[2])
                        ELSE o.drag_interp_steps,
                    !.drag_interp_float =
                        o.drag_nfast_times[1] # 0 /\ o.drag_nfast_times[2] # 1]
        ELSE base

\* select_mode without the test that refuses drag_nfast_times together with
\* drag_interp_steps
select_mode_both_drag_options(o) ==
    LET speeds == o.speeds
        blocks == o.blocks
        d == SeqSum([i \in 1 .. Len(blocks) |-> Len(blocks[i])])
        dragging == o.drag_interp_steps # 0 \/ o.drag_nfast_times[1] # 0
        factors == [i \in 1 .. Len(speeds) |-> Round(speeds[i], speeds[1])]
        first_fast == SetMin({i \in 1 .. Len(speeds) : speeds[i] > o.max_speed_slow})
        i_last_slow_block == first_fast - 1
        n_fast == SeqSum([i \in 1 .. Len(blocks) |->
                           IF i > i_last_slow_block THEN Len(blocks[i]) ELSE 0])
        base == [err |-> FALSE, burn_in_left |-> o.burn_in + 1,
                 engine |-> "metropolis", ems_num |-> o.max_samples, ems_den |-> 1,
                 n_slow |-> d, drag_interp_steps |-> o.drag_interp_steps,
                 drag_interp_float |-> FALSE,
                 oversampling_factors |-> <<>>,
                 mode |-> "plain"]
        error == [base EXCEPT !.err = TRUE]
    IN  IF o.oversample /\ dragging THEN error
        ELSE IF o.oversample THEN
            IF Cardinality(SeqRange(factors)) = 1 THEN error
            ELSE [base EXCEPT
                    !.mode = "oversample",
                    !.oversampling_factors = factors,
                    !.ems_num = SeqSum([i \in 1 .. Len(blocks) |->
                                         Len(blocks[i]) * factors[i]]),
                    !.ems_den = d,
                    !.n_slow = Len(blocks[1])]
        ELSE IF dragging THEN
            IF Cardinality(SeqRange(speeds)) = 1 THEN error
            ELSE IF \/ o.max_speed_slow < SetMin(SeqRange(speeds))
                    \/ o.max_speed_slow >= SetMax(SeqRange(speeds)) THEN error
            ELSE [base EXCEPT
                    !.mode = "drag",
                    !.engine = "dragging",
                    !.n_slow = SeqSum([i \in 1 .. Len(blocks) |->
                                        IF i <= i_last_slow_block
                                        THEN Len(blocks[i]) ELSE 0]),
                    !.drag_interp_steps =
                        IF o.drag_nfast_times[1] # 0
                        THEN Round(o.drag_nfast_times[1] * n_fast,
                                   o.drag_nfast_times[2])
                        ELSE o.drag_interp_steps,
                    !.drag_interp_float =
                        o.drag_nfast_times[1] # 0 /\ o.drag_nfast_times[2] # 1]
        ELSE base

\* select_mode refusing oversampling only when all speeds are equal
select_mode_equal_speeds(o) ==
    LET speeds == o.speeds
        blocks == o.blocks
        d == SeqSum([i \in 1 .. Len(blocks) |-> Len(blocks[i])])
        dragging == o.drag_interp_steps # 0 \/ o.drag_nfast_times[1] # 0
        factors == [i \in 1 .. Len(speeds) |-> Round(speeds[i], speeds[1])]
        first_fast == SetMin({i \in 1 .. Len(speeds) : speeds[i] > o.max_speed_slow})
        i_last_slow_block == first_fast - 1
        n_fast == SeqSum([i \in 1 .. Len(blocks) |->
                           IF i > i_last_slow_block THEN Len(blocks[i]) ELSE 0])
        base == [err |-> FALSE, burn_in_left |-> o.burn_in + 1,
                 engine |-> "metropolis", ems_num |-> o.max_samples, ems_den |-> 1,
                 n_slow |-> d, drag_interp_steps |-> o.drag_interp_steps,
                 drag_interp_float |-> FALSE,
                 oversampling_factors |-> <<>>,
                 mode |-> "plain"]
        error == [base EXCEPT !.err = TRUE]
    IN  IF o.oversample /\ dragging THEN error
        ELSE IF o.oversample THEN
            IF Cardinality(SeqRange(speeds)) = 1 THEN error
            ELSE [base EXCEPT
                    !.mode = "oversample",
                    !.oversampling_factors = factors,
                    !.ems_num = SeqSum([i \in 1 .. Len(blocks) |->
                                         Len(blocks[i]) * factors[i]]),
                    !.ems_den = d,
                    !.n_slow = Len(blocks[1])]
        ELSE IF dragging THEN
            IF Cardinality(SeqRange(speeds)) = 1 THEN error
            ELSE IF o.drag_nfast_times[1] # 0 /\ o.drag_interp_steps # 0 THEN error
            ELSE IF \/ o.max_speed_slow < SetMin(SeqRange(speeds))
                    \/ o.max_speed_slow >= SetMax(SeqRange(speeds)) THEN error
            ELSE [base EXCEPT
                    !.mode = "drag",
                    !.engine = "dragging",
                    !.n_slow = SeqSum([i \in 1 .. Len(blocks) |->
                                        IF i <= i_last_slow_block
                                        THEN Len(blocks[i]) ELSE 0]),
                    !.drag_interp_steps =
                        IF o.drag_nfast_times[1] # 0
                        THEN Round(o.drag_nfast_times[1] * n_fast,
                                   o.drag_nfast_times[2])
                        ELSE o.drag_interp_steps,
                    !.drag_interp_float =
                        o.drag_nfast_times[1] # 0 /\ o.drag_nfast_times[2] # 1]
        ELSE base

\* lines 209-255 of initialise(): the engine, effective_max_samples (as a
\* fraction num/den), n_slow and the number of interpolating steps, or a
\* configuration error.  drag_nfast_times is <<num, den>>: den = 1 for a
\* Python int, den > 1 for a float of value num/den; np.round of an int is an
\* int, that of a float is a float (drag_interp_float)
select_mode(o) ==
    LET speeds == o.speeds
        blocks == o.blocks
        d == SeqSum([i \in 1 .. Len(blocks) |-> Len(blocks[i])])
        dragging == o.drag_interp_steps # 0 \/ o.drag_nfast_times[1] # 0
        factors == [i \in 1 .. Len(speeds) |-> Round(speeds[i], speeds[1])]
        first_fast == SetMin({i \in 1 .. Len(speeds) : speeds[i] > o.max_speed_slow})
        i_last_slow_block == first_fast - 1
        n_fast == SeqSum([i \in 1 .. Len(blocks) |->
                           IF i > i_last_slow_block THEN Len(blocks[i]) ELSE 0])
        base == [err |-> FALSE, burn_in_left |-> o.burn_in + 1,
                 engine |-> "metropolis", ems_num |-> o.max_samples, ems_den |-> 1,
                 n_slow |-> d, drag_interp_steps |-> o.drag_interp_steps,
                 drag_interp_float |-> FALSE,
                 oversampling_factors |-> <<>>,
                 mode |-> "plain"]
        error == [base EXCEPT !.err = TRUE]
    IN  IF o.oversample /\ dragging THEN error
        ELSE IF o.oversample THEN
            IF Cardinality(SeqRange(factors)) = 1 THEN error
            ELSE [base EXCEPT
                    !.mode = "oversample",
                    !.oversampling_factors = factors,
                    !.ems_num = SeqSum([i \in 1 .. Len(blocks) |->
                                         Len(blocks[i]) * factors[i]]),
                    !.ems_den = d,
                    !.n_slow = Len(blocks[1])]
        ELSE IF dragging THEN
            IF Cardinality(SeqRange(speeds)) = 1 THEN error
            ELSE IF o.drag_nfast_times[1] # 0 /\ o.drag_interp_steps # 0 THEN error
            ELSE IF \/ o.max_speed_slow < SetMin(SeqRange(speeds))
                    \/ o.max_speed_slow >= SetMax(SeqRange(speeds)) THEN error
            ELSE [base EXCEPT
                    !.mode = "drag",
                    !.engine = "dragging",
                    !.n_slow = SeqSum([i \in 1 .. Len(blocks) |->
                                        IF i <= i_last_slow_block
                                        THEN Len(blocks[i]) ELSE 0]),
                    !.drag_interp_steps =
                        IF o.drag_nfast_times[1] # 0
                        THEN Round(o.drag_nfast_times[1] * n_fast,
                                   o.drag_nfast_times[2])
                        ELSE o.drag_interp_steps,
                    !.drag_interp_float =
                        o.drag_nfast_times[1] # 0 /\ o.drag_nfast_times[2] # 1]
        ELSE base

\* initialise(): the mode, then the proposer, then the initial covariance
\* matrix and its installation in the proposer; exception names what it raised
initialise(o) ==
    LET m == select_mode(o)
        c == initial_proposal_covmat(o)
        rest(exception, proposer, covariance_set) ==
            [exception |-> exception, proposer |-> proposer,
             covmat |-> IF covariance_set THEN c.covmat ELSE <<>>,
             covariance_set |-> covariance_set,
             learn_proposal_Rminus1_max |->
                 IF proposer /\ c.early
                 THEN o.learn_proposal_Rminus1_max_early
                 ELSE o.learn_proposal_Rminus1_max]
    IN  IF m.err THEN m @@ rest("HandledException", FALSE, FALSE)
        ELSE IF c.exception # "" THEN [m EXCEPT !.err = TRUE] @@ rest(c.exception, TRUE, FALSE)
        ELSE m @@ rest("", TRUE, TRUE)

\* the external covmat of a run that has none
NoCovmat == [kind |-> "none"]

\* a sampled parameter's proposal width, reference variance and prior variance
ParamInfo(proposal, ref, prior) ==
    [proposal |-> proposal, ref |-> ref, prior |-> prior]

\* the options of a run that do not change the control flow modelled here are
\* fixed; the others range over small sets
BaseOptions ==
    [oversample |-> FALSE, drag_interp_steps |-> 0, drag_nfast_times |-> <<0, 1>>,
     speeds |-> <<1, 4>>, blocks |-> <<<<0>>, <<1>>>>, max_speed_slow |-> 1,
     burn_in |-> 0, max_samples |-> MaxSamples, max_tries |-> 2,
     output_every |-> 2, callback |-> TRUE, callback_every |-> 1,
     check_every_dimension_times |-> 1,
     learn_proposal |-> TRUE, Rminus1_stop |-> 1, Rminus1_cl_stop |-> 1,
     learn_proposal_Rminus1_min |-> 0, learn_proposal_Rminus1_max |-> 2,
     learn_proposal_Rminus1_max_early |-> 3,
     params |-> <<"a", "b">>,
     info |-> [p \in {"a", "b"} |-> ParamInfo(Fin(2), NAN, Fin(100))],
     covmat |-> NoCovmat,
     mpi_size |-> 1]

ModeOptions ==
    {BaseOptions, [BaseOptions EXCEPT !.oversample = TRUE]}
    \cup {[BaseOptions EXCEPT !.drag_interp_steps = n] : n \in 1 .. MaxDrag}
    \cup {[BaseOptions EXCEPT !.drag_nfast_times = t] : t \in {<<1, 2>>, <<2, 2>>}}

Options ==
    {[o EXCEPT !.burn_in = b, !.callback_every = every] :
        o \in ModeOptions, b \in 0 .. 1, every \in 1 .. 2}

(***************************************************************************)
(* The current point and the collection (cobaya.collection).               *)
(***************************************************************************)
\* OnePoint.add: seat values, their log-posterior (kept as minuslogpost) and a
\* weight as the current point
OnePoint_add(self, values, derived, logpost, weight) ==
    [self EXCEPT !.current_point =
        [values |-> values, derived |-> derived,
         minuslogpost |-> FNeg(logpost), weight |-> weight]]

increase_weight(self, k) ==
    [self EXCEPT !.current_point.weight = @ + k]

add_to_collection(self) ==
    [self EXCEPT !.collection = Append(@, self.current_point)]

\* Collection.out_update: everything in the collection is written out
out_update(self) ==
    [self EXCEPT !.flushed = Len(self.collection)]

\* mcmc.n(): the length of the collection
n(self) == Len(self.collection)

(***************************************************************************)
(* The acceptance rule and the accept/reject post-processing.              *)
(***************************************************************************)
\* metropolis_accept with the outcome of its -inf test the wrong way round
metropolis_accept_inf_accepted(logp_trial, logp_current, e) ==
    IF FEq(logp_trial, NINF) THEN TRUE
    ELSE IF FGt(logp_trial, logp_current) THEN TRUE
    ELSE FGt(e, FSub(logp_current, logp_trial))

metropolis_accept(logp_trial, logp_current, e) ==
    IF FEq(logp_trial, NINF) THEN FALSE
    ELSE IF FGt(logp_trial, logp_current) THEN TRUE
    ELSE FGt(e, FSub(logp_current, logp_trial))

\* raise HandledException: run() is left with the exception
raise(self) == [self EXCEPT !.pc = "error"]

\* process_accept_or_reject seating the new point before it saves the old one
process_accept_or_reject_saves_late(self, accept_state, trial, derived, logpost_trial) ==
    IF accept_state THEN
        LET seated == OnePoint_add(self, trial, derived, logpost_trial, 1)
        IN  IF seated.burn_in_left <= 0 THEN
                LET added == add_to_collection(seated)
                IN  IF n(added) % cfg.o.output_every = 0
                    THEN out_update(added) ELSE added
            ELSE [seated EXCEPT !.burn_in_left = @ - 1]
    ELSE
        LET rejected == increase_weight(self, 1)
        IN  IF rejected.current_point.weight > cfg.o.max_tries
            THEN raise(out_update(rejected))
            ELSE rejected

\* process_accept_or_reject raising the stuck-chain error without flushing
process_accept_or_reject_raises_unflushed(self, accept_state, trial, derived, logpost_trial) ==
    IF accept_state THEN
        LET saved ==
                IF self.burn_in_left <= 0 THEN
                    LET added == add_to_collection(self)
                    IN  IF n(added) % cfg.o.output_every = 0
                        THEN out_update(added) ELSE added
                ELSE [self EXCEPT !.burn_in_left = @ - 1]
        IN  OnePoint_add(saved, trial, derived, logpost_trial, 1)
    ELSE
        LET rejected == increase_weight(self, 1)
        IN  IF rejected.current_point.weight > cfg.o.max_tries
            THEN raise(rejected)
            ELSE rejected

\* process_accept_or_reject counting rejections towards the burn-in
process_accept_or_reject_burns_rejections(self, accept_state, trial, derived, logpost_trial) ==
    IF accept_state THEN
        LET saved ==
                IF self.burn_in_left <= 0 THEN
                    LET added == add_to_collection(self)
                    IN  IF n(added) % cfg.o.output_every = 0
                        THEN out_update(added) ELSE added
                ELSE [self EXCEPT !.burn_in_left = @ - 1]
        IN  OnePoint_add(saved, trial, derived, logpost_trial, 1)
    ELSE
        LET rejected == increase_weight(
                            [self EXCEPT !.burn_in_left =
                                IF @ > 0 THEN @ - 1 ELSE @], 1)
        IN  IF rejected.current_point.weight > cfg.o.max_tries
            THEN raise(out_update(rejected))
            ELSE rejected

\* process_accept_or_reject seating the new point with weight 0
process_accept_or_reject_seats_weightless(self, accept_state, trial, derived, logpost_trial) ==
    IF accept_state THEN
        LET saved ==
                IF self.burn_in_left <= 0 THEN
                    LET added == add_to_collection(self)
                    IN  IF n(added) % cfg.o.output_every = 0
                        THEN out_update(added) ELSE added
                ELSE [self EXCEPT !.burn_in_left = @ - 1]
        IN  OnePoint_add(saved, trial, derived, logpost_trial, 0)
    ELSE
        LET rejected == increase_weight(self, 1)
        IN  IF rejected.current_point.weight > cfg.o.max_tries
            THEN raise(out_update(rejected))
            ELSE rejected

\* process_accept_or_reject testing burn_in_left < 0 instead of <= 0
process_accept_or_reject_burns_one_more(self, accept_state, trial, derived, logpost_trial) ==
    IF accept_state THEN
        LET saved ==
                IF self.burn_in_left < 0 THEN
                    LET added == add_to_collection(self)
                    IN  IF n(added) % cfg.o.output_every = 0
                        THEN out_update(added) ELSE added
                ELSE [self EXCEPT !.burn_in_left = @ - 1]
        IN  OnePoint_add(saved, trial, derived, logpost_trial, 1)
    ELSE
        LET rejected == increase_weight(self, 1)
        IN  IF rejected.current_point.weight > cfg.o.max_tries
            THEN raise(out_update(rejected))
            ELSE rejected

process_accept_or_reject(self, accept_state, trial, derived, logpost_trial) ==
    IF accept_state THEN
        LET saved ==
                IF self.burn_in_left <= 0 THEN
                    LET added == add_to_collection(self)
                    IN  IF n(added) % cfg.o.output_every = 0
                        THEN out_update(added) ELSE added
                ELSE [self EXCEPT !.burn_in_left = @ - 1]
        IN  OnePoint_add(saved, trial, derived, logpost_trial, 1)
    ELSE
        LET rejected == increase_weight(self, 1)
        IN  IF rejected.current_point.weight > cfg.o.max_tries
            THEN raise(out_update(rejected))
            ELSE rejected

(***************************************************************************)
(* Readiness and the checkpoint.                                           *)
(***************************************************************************)
Ranks == DOMAIN chain

\* get_mpi(): MPI is in use when there is more than one process
get_mpi == cfg.o.mpi_size > 1

\* the matching Iallgather of every other rank has been posted
Iallgather_complete(rank, posts) ==
    \A r \in Ranks : r # rank => chain[r].posts >= posts

\* req.Test(): true only once the collective has completed; `progress` says
\* whether the library has got that far by now
req_Test(self, rank, progress) ==
    progress /\ Iallgather_complete(rank, self.posts)

\* the condition under which a chain signals that it is ready
just_ready(self) ==
    /\ n(self) > 0
    /\ self.current_point.weight = 1
    /\ n(self) % (cfg.o.check_every_dimension_times * cfg.d.n_slow) = 0

\* check_all_ready posting an Iallgather whenever the chain is just ready,
\* whether or not a request is outstanding
check_all_ready_posts_again(self, rank, progress) ==
    IF just_ready(self) /\ ~get_mpi THEN [self |-> self, ret |-> TRUE]
    ELSE
        LET posted ==
                IF just_ready(self)
                THEN [self EXCEPT !.has_req = TRUE, !.posts = @ + 1]
                ELSE self
        IN  IF posted.has_req /\ req_Test(posted, rank, progress)
            THEN [self |-> [posted EXCEPT !.has_req = FALSE, !.pc = "barrier",
                                          !.barriers = @ + 1],
                  ret |-> TRUE]
            ELSE [self |-> posted, ret |-> FALSE]

\* check_all_ready with a blocking gather: the chain that signals readiness
\* goes straight to the barrier
check_all_ready_blocking(self, rank, progress) ==
    IF just_ready(self)
    THEN [self |-> [self EXCEPT !.posts = @ + 1, !.pc = "barrier",
                                !.barriers = @ + 1],
          ret |-> TRUE]
    ELSE [self |-> self, ret |-> FALSE]

\* check_all_ready taking the serial way out whether or not MPI is in use
check_all_ready_alone(self, rank, progress) ==
    IF just_ready(self) THEN [self |-> self, ret |-> TRUE]
    ELSE [self |-> self, ret |-> FALSE]

\* check_all_ready() up to its barrier: ret says that it returns True (in the
\* parallel case once the barrier, at pc = "barrier", lets the chain through)
check_all_ready(self, rank, progress) ==
    IF just_ready(self) /\ ~get_mpi THEN [self |-> self, ret |-> TRUE]
    ELSE
        LET posted ==
                IF just_ready(self) /\ ~self.has_req
                THEN [self EXCEPT !.has_req = TRUE, !.posts = @ + 1]
                ELSE self
        IN  IF posted.has_req /\ req_Test(posted, rank, progress)
            THEN [self |-> [posted EXCEPT !.has_req = FALSE, !.pc = "barrier",
                                          !.barriers = @ + 1],
                  ret |-> TRUE]
            ELSE [self |-> posted, ret |-> FALSE]

\* getattr(self, "Rminus1_last", np.inf)
UNSET == [k |-> "unset", v |-> 0]
getattr_Rminus1_last(self) ==
    IF self.Rminus1_last = UNSET THEN PINF ELSE self.Rminus1_last

\* Python's max(a, b)
PyMax(a, b) == IF FGt(b, a) THEN b ELSE a

\* rank 0's convergence test: st.success says whether the Cholesky
\* factorisation went through, st.Rminus1 and st.Rminus1_cl are the statistics
\* computed from the gathered means, covariances and bounds
root_converged(self, st) ==
    IF /\ st.success
       /\ FGt(Fin(cfg.o.Rminus1_stop),
              PyMax(st.Rminus1, getattr_Rminus1_last(self)))
       /\ FGt(Fin(cfg.o.Rminus1_cl_stop), st.Rminus1_cl)
    THEN TRUE
    ELSE self.converged

\* what rank 0 broadcasts
root_result(self, st) ==
    [success |-> st.success, Rminus1 |-> st.Rminus1,
     converged |-> root_converged(self, st)]

\* the broadcast of the success flag and, on success, of R-1 and converged
broadcast(self, conv) ==
    IF conv.success
    THEN [self EXCEPT !.Rminus1_last = conv.Rminus1, !.converged = conv.converged]
    ELSE self

\* the gathered Ns: the lengths of the collections of all chains, which weight
\* the mean of covariances (the sum of those of ranks 0 .. r)
RECURSIVE Ns(_)
Ns(r) == IF r < 0 THEN 0 ELSE n(chain[r]) + Ns(r - 1)

\* proposer.set_covariance with every chain installing a matrix computed from
\* its own samples alone
set_covariance_own_samples(self, source) ==
    [self EXCEPT !.proposal_covmat = [source |-> source, n |-> n(self)]]

\* proposer.set_covariance with a matrix learned at this checkpoint: the matrix
\* is named by its origin and the number of samples it was computed from (those
\* of all chains under MPI, where it is rank 0's mean_of_covs)
set_covariance(self, source) ==
    [self EXCEPT !.proposal_covmat =
        [source |-> source, n |-> Ns(Cardinality(Ranks) - 1)]]

\* the learning part of the checkpoint
learn_proposal(self) ==
    IF cfg.o.learn_proposal /\ ~self.converged THEN
        IF get_mpi THEN
            IF self.Rminus1_last = UNSET THEN [self EXCEPT !.pc = "crash"]
            ELSE IF ~(/\ FGt(Fin(cfg.d.learn_proposal_Rminus1_max), self.Rminus1_last)
                      /\ FGt(self.Rminus1_last, Fin(cfg.o.learn_proposal_Rminus1_min)))
            THEN self
            ELSE set_covariance(self, "mean_of_covs")
        ELSE set_covariance(self, "own_cov")
    ELSE self

\* check_convergence_and_learn_proposal running its convergence part without
\* asking whether MPI is in use
check_convergence_and_learn_proposal_any_mode(self, conv) ==
    learn_proposal(broadcast(self, conv))

\* check_convergence_and_learn_proposal() of one rank, given what rank 0
\* computed from the statistics; without MPI the convergence part is skipped
check_convergence_and_learn_proposal(self, conv) ==
    IF get_mpi
    THEN learn_proposal(broadcast(self, conv))
    ELSE learn_proposal(self)

\* check_all_ready() has returned True: the chain is in the checkpoint, which
\* under MPI starts with a blocking gather
enter_checkpoint(self, st) ==
    IF get_mpi THEN [self EXCEPT !.pc = "checkpoint"]
    ELSE check_convergence_and_learn_proposal(self, root_result(self, st))

\* the callback test without the test of the weight
callback_due_any_weight(self) ==
    /\ cfg.o.callback
    /\ (IF n(self) > 1 THEN n(self) ELSE 1) % cfg.o.callback_every = 0

\* the callback test of the main loop
callback_due(self) ==
    /\ cfg.o.callback
    /\ (IF n(self) > 1 THEN n(self) ELSE 1) % cfg.o.callback_every = 0
    /\ self.current_point.weight = 1

\* the rest of a main-loop iteration after get_new_sample() has returned
loop_tail(self, rank, progress, st) ==
    LET r == check_all_ready(self, rank, progress)
    IN  IF r.ret /\ r.self.pc # "barrier" THEN enter_checkpoint(r.self, st) ELSE r.self

\* the while condition with <= for <
loop_condition_one_more(self) ==
    /\ n(self) * cfg.d.ems_den <= cfg.d.ems_num
    /\ ~self.converged

\* the while condition of the main loop
loop_condition(self) ==
    /\ n(self) * cfg.d.ems_den < cfg.d.ems_num
    /\ ~self.converged

(***************************************************************************)
(* The engines.                                                            *)
(***************************************************************************)
get_new_sample_metropolis(self, trial, e) ==
    LET logpost_trial == logposterior(trial)
        accept == metropolis_accept(logpost_trial,
                                    FNeg(self.current_point.minuslogpost), e)
    IN  [self |-> process_accept_or_reject(self, accept, trial, derived_at(trial),
                                           logpost_trial),
         accept |-> accept]

\* the locals of get_new_sample_dragging while no dragging step is under way
NoDrag == [i_step |-> 0]

\* drag_begin without the immediate rejection of a slow proposal at -inf
drag_begin_without_return(self, end_slow_point) ==
    LET start_slow_point == self.current_point.values
        start_slow_logpost == FNeg(self.current_point.minuslogpost)
        end_slow_logpost == logposterior(end_slow_point)
    IN  IF cfg.d.drag_interp_float
        THEN [self |-> [self EXCEPT !.pc = "crash"], returned |-> FALSE]
        ELSE [self |-> [self EXCEPT !.pc = "drag", !.drag =
                  [i_step |-> 1,
                   end_slow_point |-> end_slow_point,
                   current_start_point |-> start_slow_point,
                   current_end_point |-> end_slow_point,
                   current_start_logpost |-> start_slow_logpost,
                   current_end_logpost |-> end_slow_logpost,
                   derived |-> derived_at(end_slow_point),
                   start_drag_logpost_acc |-> start_slow_logpost,
                   end_drag_logpost_acc |-> end_slow_logpost]],
              returned |-> FALSE]

\* get_new_sample_dragging up to its loop: the slow proposal; range() raises
\* TypeError when drag_interp_steps is a float
drag_begin(self, end_slow_point) ==
    LET start_slow_point == self.current_point.values
        start_slow_logpost == FNeg(self.current_point.minuslogpost)
        end_slow_logpost == logposterior(end_slow_point)
    IN  IF FEq(end_slow_logpost, NINF)
        THEN [self |-> increase_weight(self, 1), returned |-> TRUE]
        ELSE IF cfg.d.drag_interp_float
        THEN [self |-> [self EXCEPT !.pc = "crash"], returned |-> FALSE]
        ELSE [self |-> [self EXCEPT !.pc = "drag", !.drag =
                  [i_step |-> 1,
                   end_slow_point |-> end_slow_point,
                   current_start_point |-> start_slow_point,
                   current_end_point |-> end_slow_point,
                   current_start_logpost |-> start_slow_logpost,
                   current_end_logpost |-> end_slow_logpost,
                   derived |-> derived_at(end_slow_point),
                   start_drag_logpost_acc |-> start_slow_logpost,
                   end_drag_logpost_acc |-> end_slow_logpost]],
              returned |-> FALSE]

\* a point moved by a step in the fast direction
plus_fast(x, delta_fast) == <<x[1], x[2] + delta_fast>>

\* the Metropolis test of one interpolating step
accept_drag(dr, proposal_start_logpost, proposal_end_logpost, e) ==
    IF FGt(proposal_start_logpost, NINF) /\ FGt(proposal_end_logpost, NINF) THEN
        LET steps == cfg.d.drag_interp_steps
            i == dr.i_step
            proposal_interp_logpost ==
                FAdd(FScale(steps + 1 - i, steps + 1, proposal_start_logpost),
                     FScale(i, steps + 1, proposal_end_logpost))
            current_interp_logpost ==
                FAdd(FScale(steps + 1 - i, steps + 1, dr.current_start_logpost),
                     FScale(i, steps + 1, dr.current_end_logpost))
        IN  metropolis_accept(proposal_interp_logpost, current_interp_logpost, e)
    ELSE FALSE

\* the two proposals of an interpolating step and their log-posteriors: the end
\* one is evaluated only if the start one is not -inf
drag_proposal(dr, delta_fast) ==
    LET proposal_start_point == plus_fast(dr.current_start_point, delta_fast)
        proposal_end_point == plus_fast(dr.current_end_point, delta_fast)
        proposal_start_logpost == logposterior(proposal_start_point)
    IN  [proposal_start_point |-> proposal_start_point,
         proposal_end_point |-> proposal_end_point,
         proposal_start_logpost |-> proposal_start_logpost,
         proposal_end_logpost |->
             IF FGt(proposal_start_logpost, NINF)
             THEN logposterior(proposal_end_point) ELSE NINF,
         end_evaluated |-> FGt(proposal_start_logpost, NINF)]

\* one pass of the loop of get_new_sample_dragging
drag_step(self, delta_fast, e) ==
    LET dr == self.drag
        p == drag_proposal(dr, delta_fast)
        accepted == accept_drag(dr, p.proposal_start_logpost,
                                p.proposal_end_logpost, e)
        moved ==
            IF accepted
            THEN [dr EXCEPT !.current_start_point = p.proposal_start_point,
                            !.current_start_logpost = p.proposal_start_logpost,
                            !.current_end_point = p.proposal_end_point,
                            !.current_end_logpost = p.proposal_end_logpost,
                            !.derived = derived_at(p.proposal_end_point)]
            ELSE dr
    IN  [self EXCEPT !.drag =
            [moved EXCEPT
                !.i_step = @ + 1,
                !.start_drag_logpost_acc = FAdd(@, moved.current_start_logpost),
                !.end_drag_logpost_acc = FAdd(@, moved.current_end_logpost)]]

\* the test for the TOTAL step
accept_total(dr, e) ==
    metropolis_accept(FScale(1, cfg.d.drag_interp_steps, dr.end_drag_logpost_acc),
                      FScale(1, cfg.d.drag_interp_steps, dr.start_drag_logpost_acc),
                      e)

\* get_new_sample_dragging after its loop
drag_finish(self, e) ==
    LET dr == self.drag
        accept == accept_total(dr, e)
        back == [self EXCEPT !.pc = "loop", !.drag = NoDrag]
    IN  [self |-> process_accept_or_reject(back, accept, dr.current_end_point,
                                           dr.derived, dr.current_end_logpost),
         accept |-> accept]

(***************************************************************************)
(* The state after construction and initialise().                          *)
(***************************************************************************)
InitChain(o) ==
    [pc |-> "start",
     current_point |-> [values |-> <<0, 0>>, derived |-> <<0, 0>>,
                        minuslogpost |-> Fin(0), weight |-> 0],
     collection |-> <<>>,
     flushed |-> 0,
     burn_in_left |-> initialise(o).burn_in_left,
     converged |-> FALSE,
     has_req |-> FALSE,
     posts |-> 0,
     barriers |-> 0,
     Rminus1_last |-> UNSET,
     proposal_covmat |-> [source |-> "initial", n |-> 0],
     drag |-> NoDrag]

NoEvent == [kind |-> "none"]

\* evaluations, fast_draws: the posterior evaluations and the
\* get_proposal_fast draws made so far by the engine invocation under way, or
\* by the last one when none is under way.
\* S_start, S_end: the sums, over the interpolating steps taken so far in the
\* dragging iteration under way, of the log-posteriors of the two extremes
\* after each step
InitObs ==
    [steps |-> 0, accepted |-> 0, discarded |-> 0, entered |-> 0, cb |-> FALSE,
     last |-> NoEvent, S_start |-> Fin(0), S_end |-> Fin(0),
     evaluations |-> 0, fast_draws |-> 0]

InitCkpt == [count |-> 0, last |-> NoEvent, prev |-> NoEvent]

InitWith(options) ==
    /\ \E o \in options :
        /\ ~initialise(o).err
        /\ cfg = [o |-> o, d |-> initialise(o)]
        /\ chain = [r \in 0 .. (o.mpi_size - 1) |-> InitChain(o)]
    /\ obs = [r \in DOMAIN chain |-> InitObs]
    /\ ckpt = InitCkpt

Init == InitWith(Options)

(***************************************************************************)
(* The steps of run().                                                     *)
(***************************************************************************)
\* prior.reference(): a point of the prior box whose log-posterior is finite
reference == {x \in Box : IsFinite(logposterior(x))}

\* run() up to its main loop
Start(c, references) ==
    /\ chain[c].pc = "start"
    /\ \E initial_point \in references :
        chain' = [chain EXCEPT ![c] =
            [OnePoint_add(chain[c], initial_point, derived_at(initial_point),
                          logposterior(initial_point), 1)
             EXCEPT !.pc = "loop", !.converged = FALSE]]
    /\ UNCHANGED <<cfg, obs, ckpt>>

\* the statistics a checkpoint can compute: none when the Cholesky
\* factorisation fails
Stats ==
    {[success |-> FALSE, Rminus1 |-> NAN, Rminus1_cl |-> NAN]}
    \cup [success : {TRUE}, Rminus1 : {Fin(0), Fin(1)},
          Rminus1_cl : {Fin(0), Fin(1)}]

\* the end of a main-loop iteration: nothing of it runs when the engine raised
iteration_end(self, rank, progress, st) ==
    IF self.pc = "error" THEN self ELSE loop_tail(self, rank, progress, st)

\* the choices left open at the end of an iteration: whether the Iallgather has
\* completed by the time of req.Test(), and the statistics of a serial checkpoint
Progress == IF get_mpi THEN BOOLEAN ELSE {FALSE}
StatsOf(self) ==
    IF ~get_mpi /\ self.pc # "error" /\ just_ready(self)
    THEN Stats ELSE {CHOOSE st \in Stats : TRUE}

\* what the observer notes when an engine invocation ends: `engine` is the
\* chain as the engine left it, `after` as the iteration left it.  The
\* observer of a parallel run (watch = FALSE) only counts the checkpoints each
\* chain enters.
Observed(c, before, engine, after, accept, event, watch) ==
    LET entered == IF \/ after.pc = "checkpoint"
                      \/ ~get_mpi /\ engine.pc # "error" /\ just_ready(engine)
                   THEN obs[c].entered + 1 ELSE obs[c].entered
    IN  IF watch
        THEN [obs[c] EXCEPT
                !.steps = @ + 1,
                !.accepted = IF accept THEN @ + 1 ELSE @,
                !.discarded = IF accept /\ before.burn_in_left > 0
                              THEN @ + before.current_point.weight ELSE @,
                !.entered = entered,
                !.cb = engine.pc # "error" /\ callback_due(engine),
                !.last = event,
                !.S_start = Fin(0),
                !.S_end = Fin(0)]
        ELSE [obs[c] EXCEPT !.entered = entered]

\* one iteration of the main loop under the Metropolis engine
Metropolis(c, proposals, draws, watch) ==
    /\ chain[c].pc = "loop"
    /\ loop_condition(chain[c])
    /\ cfg.d.engine = "metropolis"
    /\ obs[c].steps < MaxSteps
    /\ \E trial \in proposals, e \in draws, progress \in Progress :
        LET r == get_new_sample_metropolis(chain[c], trial, e)
        IN  \E st \in StatsOf(r.self) :
            LET after == iteration_end(r.self, c, progress, st)
            IN  /\ chain' = [chain EXCEPT ![c] = after]
                /\ obs' = [obs EXCEPT ![c] =
                        [Observed(c, chain[c], r.self, after, r.accept,
                            [kind |-> "metropolis",
                             logp_trial |-> logposterior(trial),
                             logp_current |->
                                 FNeg(chain[c].current_point.minuslogpost),
                             e |-> e, accept |-> r.accept],
                            watch)
                         EXCEPT !.evaluations = IF watch THEN 1 ELSE 0]]
    /\ UNCHANGED <<cfg, ckpt>>

\* an iteration of the main loop under the dragging engine: the slow proposal
DragBegin(c) ==
    /\ chain[c].pc = "loop"
    /\ loop_condition(chain[c])
    /\ cfg.d.engine = "dragging"
    /\ obs[c].steps < MaxSteps
    /\ \E end_slow_point \in Reach, progress \in Progress :
        LET r == drag_begin(chain[c], end_slow_point)
        IN  \E st \in StatsOf(r.self) :
            LET after == IF r.returned
                         THEN iteration_end(r.self, c, progress, st) ELSE r.self
            IN  /\ chain' = [chain EXCEPT ![c] = after]
                /\ obs' = [obs EXCEPT ![c] =
                        [IF r.returned
                         THEN Observed(c, chain[c], r.self, after, FALSE,
                                 [kind |-> "slow",
                                  logp_trial |-> logposterior(end_slow_point),
                                  accept |-> FALSE],
                                 TRUE)
                         ELSE [obs[c] EXCEPT !.last =
                                 [kind |-> "proposed",
                                  logp_trial |-> logposterior(end_slow_point)]]
                         EXCEPT !.evaluations = 1, !.fast_draws = 0]]
    /\ UNCHANGED <<cfg, ckpt>>

\* the steps get_proposal_fast can take along the fast coordinate
FastDeltas == {-1, 1}

\* one interpolating step of the dragging engine
DragStep(c) ==
    /\ chain[c].pc = "drag"
    /\ chain[c].drag.i_step <= cfg.d.drag_interp_steps
    /\ \E delta_fast \in FastDeltas, e \in ExpDraws :
        LET dr == chain[c].drag
            p == drag_proposal(dr, delta_fast)
            after == drag_step(chain[c], delta_fast, e)
        IN  /\ chain' = [chain EXCEPT ![c] = after]
            /\ obs' = [obs EXCEPT
                    ![c].last =
                        [kind |-> "drag",
                         proposal_start_logpost |-> p.proposal_start_logpost,
                         proposal_end_logpost |-> p.proposal_end_logpost,
                         accept |-> accept_drag(dr, p.proposal_start_logpost,
                                                p.proposal_end_logpost, e)],
                    ![c].S_start = FAdd(@, after.drag.current_start_logpost),
                    ![c].S_end = FAdd(@, after.drag.current_end_logpost),
                    ![c].evaluations = @ + (IF p.end_evaluated THEN 2 ELSE 1),
                    ![c].fast_draws = @ + 1]
    /\ UNCHANGED <<cfg, ckpt>>

\* the end of a dragging iteration: the total test and the rest of the loop body
DragFinish(c) ==
    /\ chain[c].pc = "drag"
    /\ chain[c].drag.i_step > cfg.d.drag_interp_steps
    /\ \E e \in ExpDraws, progress \in Progress :
        LET r == drag_finish(chain[c], e)
        IN  \E st \in StatsOf(r.self) :
            LET after == iteration_end(r.self, c, progress, st)
            IN  /\ chain' = [chain EXCEPT ![c] = after]
                /\ obs' = [obs EXCEPT ![c] =
                        Observed(c, chain[c], r.self, after, r.accept,
                            [kind |-> "total",
                             logp_trial |-> chain[c].drag.current_end_logpost,
                             e |-> e, accept |-> r.accept],
                            TRUE)]
    /\ UNCHANGED <<cfg, ckpt>>

\* the main loop ends: the last batch of samples is written
Finish(c) ==
    /\ chain[c].pc = "loop"
    /\ ~loop_condition(chain[c])
    /\ chain' = [chain EXCEPT ![c] = [out_update(chain[c]) EXCEPT !.pc = "done"]]
    /\ UNCHANGED <<cfg, obs, ckpt>>

Next ==
    \/ Start(0, reference)
    \/ Metropolis(0, Reach, ExpDraws, TRUE)
    \/ DragBegin(0)
    \/ DragStep(0)
    \/ DragFinish(0)
    \/ Finish(0)

Spec == Init /\ [][Next]_vars

(***************************************************************************)
(* Parallel chains.                                                        *)
(***************************************************************************)
\* comm.barrier(): a chain leaves the barrier of check_all_ready once every
\* rank has entered it, and check_all_ready returns True
BarrierLeave(c) ==
    /\ chain[c].pc = "barrier"
    /\ \A r \in Ranks : chain[r].barriers >= chain[c].barriers
    /\ chain' = [chain EXCEPT ![c] =
            enter_checkpoint(chain[c], CHOOSE st \in Stats : TRUE)]
    /\ obs' = [obs EXCEPT ![c].entered = @ + 1]
    /\ UNCHANGED <<cfg, ckpt>>

\* check_convergence_and_learn_proposal() under MPI: its collectives (gather,
\* bcast, Bcast) go through once every rank has entered it; rank 0 computes the
\* statistics and every rank takes what it broadcasts
Checkpoint ==
    /\ get_mpi
    /\ \A c \in Ranks : chain[c].pc = "checkpoint"
    /\ \E st \in Stats :
        LET conv == root_result(chain[0], st)
            \* what the observer notes: the bounds statistic is computed
            \* once R-1 of means has passed its test
            means_pass == /\ st.success
                          /\ FGt(Fin(cfg.o.Rminus1_stop),
                                 PyMax(st.Rminus1, getattr_Rminus1_last(chain[0])))
            event == [kind |-> "checkpoint", success |-> st.success,
                      Rminus1 |-> st.Rminus1,
                      Rminus1_cl |-> IF means_pass THEN st.Rminus1_cl ELSE NAN,
                      sets_converged |-> conv.converged /\ ~chain[0].converged]
        IN  /\ chain' = [c \in Ranks |->
                    LET left == check_convergence_and_learn_proposal(chain[c], conv)
                    IN  IF left.pc = "checkpoint"
                        THEN [left EXCEPT !.pc = "loop"] ELSE left]
            /\ ckpt' = [count |-> ckpt.count + 1, last |-> event,
                        prev |-> ckpt.last]
    /\ UNCHANGED <<cfg, obs>>

\* the parallel runs followed: the modes whose engine is the Metropolis one
\* (one of them over a longer run in which the first rejection is fatal), every
\* chain started at the same point and proposing either a point of equal
\* log-posterior, which is accepted, or one outside the prior
MPIOptions ==
    {[o EXCEPT !.mpi_size = NChains] :
        o \in {BaseOptions,
               [BaseOptions EXCEPT !.oversample = TRUE],
               [BaseOptions EXCEPT !.oversample = TRUE, !.speeds = <<1, 8>>,
                                   !.max_tries = 1]}}

MPIReference == {<<0, 0>>}
MPIProposals == {<<0, 0>>, <<-1, 0>>}
MPIDraws == {Fin(Unit)}

InitMPI == InitWith(MPIOptions)

NextMPI ==
    \/ \E c \in Ranks : Start(c, MPIReference)
    \/ \E c \in Ranks : Metropolis(c, MPIProposals, MPIDraws, FALSE)
    \/ \E c \in Ranks : Finish(c)
    \/ \E c \in Ranks : BarrierLeave(c)
    \/ Checkpoint

SpecMPI == InitMPI /\ [][NextMPI]_vars

\* the ranks of the parallel runs
MPIRanks == 0 .. (NChains - 1)

\* what one rank can do on its own
RankStep(c) ==
    \/ Start(c, MPIReference)
    \/ Metropolis(c, MPIProposals, MPIDraws, FALSE)
    \/ Finish(c)
    \/ BarrierLeave(c)

\* the parallel runs under fair scheduling: every process that can take a step
\* eventually takes one, and a collective every rank has entered completes
SpecMPIFair ==
    /\ SpecMPI
    /\ \A c \in MPIRanks : WF_vars(RankStep(c))
    /\ WF_vars(Checkpoint)

(***************************************************************************)
(* Construction and initialise() over a wide range of options.             *)
(***************************************************************************)
\* what a parameter's info can hold: a proposal width (possibly 0), a
\* reference variance, both or neither; the prior always has a variance
ParamInfos ==
    {ParamInfo(Fin(2), NAN, Fin(100)), ParamInfo(Fin(0), Fin(9), Fin(100)),
     ParamInfo(NAN, Fin(9), Fin(100)), ParamInfo(NAN, NAN, Fin(100))}

\* square matrices of one or two rows, symmetric or not, positive-definite or not
CovDiag == {0, 10, 20}
CovOff == {0, 1}
LoadedMatrices ==
    {<<<<x>>>> : x \in CovDiag}
    \cup {<<<<x, u>>, <<v, y>>>> : x \in CovDiag, y \in CovDiag,
                                   u \in CovOff, v \in CovOff}

\* the names an external covmat can carry: sampled ones and one that is not
CovNames == {"a", "b", "z"}
LoadedNames ==
    {<<x>> : x \in CovNames} \cup {<<x, y>> : x \in CovNames, y \in CovNames}

\* the external covmat: none, a file (unreadable, empty, with a first line that
\* does not start with #, or well-formed) or a matrix in memory (given with or
\* without covmat_params)
Covmats ==
    {NoCovmat}
    \cup {[kind |-> "file", readable |-> r, header |-> h,
           names |-> <<"a", "b">>, matrix |-> <<<<10, 1>>, <<1, 20>>>>] :
              r \in BOOLEAN, h \in {"", "x"}}
    \cup {[kind |-> "file", readable |-> TRUE, header |-> "#",
           names |-> ns, matrix |-> m] : ns \in LoadedNames, m \in LoadedMatrices}
    \cup {[kind |-> "array", covmat_params |-> ns, matrix |-> m] :
              ns \in LoadedNames \cup {<<>>}, m \in LoadedMatrices}

\* the options that reach the covariance assembly: three sampled parameters
CovOptions ==
    {[BaseOptions EXCEPT !.params = <<"a", "b", "c">>,
                         !.blocks = <<<<0>>, <<1, 2>>>>,
                         !.info = info, !.covmat = c] :
        info \in [{"a", "b", "c"} -> ParamInfos], c \in Covmats}

\* the options that decide the mode
ModeVariants ==
    {[BaseOptions EXCEPT !.oversample = ov, !.drag_interp_steps = di,
                         !.drag_nfast_times = t, !.speeds = sp,
                         !.max_speed_slow = m, !.params = pb.params,
                         !.blocks = pb.blocks,
                         !.info = [p \in SeqRange(pb.params) |->
                                      ParamInfo(Fin(2), NAN, Fin(100))]] :
        pb \in {[params |-> <<"a", "b">>, blocks |-> <<<<0>>, <<1>>>>],
                [params |-> <<"a", "b", "c">>, blocks |-> <<<<0>>, <<1, 2>>>>]},
        ov \in BOOLEAN, di \in 0 .. 2, t \in {<<0, 1>>, <<1, 1>>, <<1, 2>>},
        sp \in {<<1, 1>>, <<1, 4>>, <<2, 3>>, <<4, 5>>}, m \in {0, 1, 2, 4}}

\* the sampler's derived state before initialise() has run
Uninitialised ==
    [mode |-> "none", err |-> FALSE, exception |-> "", proposer |-> FALSE,
     covariance_set |-> FALSE, covmat |-> <<>>]

\* the sampler object as constructed
Constructed ==
    [InitChain(BaseOptions) EXCEPT !.pc = "new", !.burn_in_left = 0,
                                   !.proposal_covmat = [source |-> "none", n |-> 0]]

InitNew ==
    /\ \E o \in CovOptions \cup ModeVariants : cfg = [o |-> o, d |-> Uninitialised]
    /\ chain = [r \in {0} |-> Constructed]
    /\ obs = [r \in {0} |-> InitObs]
    /\ ckpt = InitCkpt

\* initialise(): a HandledException is a configuration error, anything else
\* it raises is a crash
Initialise(c) ==
    /\ chain[c].pc = "new"
    /\ LET d == initialise(cfg.o)
       IN  /\ cfg' = [cfg EXCEPT !.d = d]
           /\ chain' = [chain EXCEPT ![c] =
                  CASE d.exception = "" -> InitChain(cfg.o)
                    [] d.exception = "HandledException" ->
                          [@ EXCEPT !.pc = "config_error"]
                    [] OTHER -> [@ EXCEPT !.pc = "crash"]]
    /\ UNCHANGED <<obs, ckpt>>

NextNew ==
    \/ Initialise(0)
    \/ Start(0, reference)

SpecNew == InitNew /\ [][NextNew]_vars

(***************************************************************************)
(* Properties of a chain.                                                  *)
(***************************************************************************)
RECURSIVE WeightSum(_)
WeightSum(points) ==
    IF points = <<>> THEN 0 ELSE Head(points).weight + WeightSum(Tail(points))

\* the chain has a current point: run() has seated the initial one
Seated(c) == chain[c].pc # "start"

\* the weights held by the collection and the current point
HeldWeight(c) == WeightSum(chain[c].collection) + chain[c].current_point.weight

\* the current point's log-posterior
CurrentLogpost(c) == FNeg(chain[c].current_point.minuslogpost)

\* C1 as stated: the weights of the collection plus the weight of the current
\* point equal the number of proposals evaluated, minus the weights discarded
\* during burn-in, minus one for the initial point.
C1_WeightsAsStated ==
    \A c \in Ranks :
        Seated(c) => HeldWeight(c) = obs[c].steps - obs[c].discarded - 1

\* C1 amended: the weights of the collection plus the weight of the current
\* point equal the number of engine invocations completed, plus one for the
\* initial point (seated with weight 1), minus the weights discarded during
\* burn-in.
C1_WeightsConserved ==
    \A c \in Ranks :
        Seated(c) => HeldWeight(c) = obs[c].steps + 1 - obs[c].discarded

C1_Witness ==
    /\ cfg.d.engine = "dragging"
    /\ obs[0].steps >= 4
    /\ obs[0].discarded >= 2
    /\ Len(chain[0].collection) >= 1
    /\ chain[0].current_point.weight >= 2

\* C2: in every reachable state the current point's cached log-posterior is
\* finite (never -inf, +inf or NaN), the initial point included.
C2_CurrentLogpostFinite ==
    \A c \in Ranks : Seated(c) => IsFinite(CurrentLogpost(c))

\* C3: metropolis_accept returns true if and only if the trial log-posterior
\* is finite and it is above the current one or the Exp(1) draw is above
\* their difference.
C3_AcceptIffFiniteAndRule ==
    \A c \in Ranks :
        LET ev == obs[c].last
        IN  ev.kind = "metropolis" =>
                (ev.accept <=>
                    /\ IsFinite(ev.logp_trial)
                    /\ \/ FGt(ev.logp_trial, ev.logp_current)
                       \/ FGt(ev.e, FSub(ev.logp_current, ev.logp_trial)))

\* an engine invocation of chain c ends in this step
StepEnds(c) == obs'[c].steps = obs[c].steps + 1

\* the step leaves everything of the chain's sample as it was, but for the
\* current point's weight, which grows by one
OnlyWeightGrows(c) ==
    /\ chain'[c].collection = chain[c].collection
    /\ chain'[c].burn_in_left = chain[c].burn_in_left
    /\ chain'[c].current_point =
           [chain[c].current_point EXCEPT !.weight = @ + 1]

\* C4: a trial whose log-posterior is -inf is always rejected: the step is not
\* accepted, nothing is appended, the current point keeps its values and its
\* weight grows by exactly one; a dragging sub-step one of whose two proposals
\* is -inf is rejected, and leaves both extremes where they were.
C4_MinusInfRejected ==
    [][\A c \in Ranks :
        /\ (/\ StepEnds(c)
            /\ obs'[c].last.kind \in {"metropolis", "slow"}
            /\ obs'[c].last.logp_trial = NINF)
           => ~obs'[c].last.accept /\ OnlyWeightGrows(c)
        /\ (/\ chain[c].pc = "drag"
            /\ chain'[c].pc = "drag"
            /\ chain'[c] # chain[c]
            /\ \/ obs'[c].last.proposal_start_logpost = NINF
               \/ obs'[c].last.proposal_end_logpost = NINF)
           => /\ ~obs'[c].last.accept
              /\ chain'[c].drag.current_start_point = chain[c].drag.current_start_point
              /\ chain'[c].drag.current_end_point = chain[c].drag.current_end_point
              /\ chain'[c].drag.current_end_logpost = chain[c].drag.current_end_logpost
              /\ chain'[c].current_point = chain[c].current_point
              /\ chain'[c].collection = chain[c].collection
      ]_vars

C4_Witness ==
    /\ obs[0].last.kind = "slow"
    /\ obs[0].last.logp_trial = NINF
    /\ chain[0].current_point.weight >= 2
    /\ Len(chain[0].collection) >= 1

\* C5: while a chain keeps sampling, the weight of its current point never
\* exceeds max_tries: a rejection that takes it beyond ends the run with the
\* stuck-chain error.
C5_SamplingWithinMaxTries ==
    \A c \in Ranks :
        chain[c].pc \in {"loop", "drag"}
            => chain[c].current_point.weight <= cfg.o.max_tries

\* C6: with burn_in = b the first b+1 outgoing current points are discarded and
\* every later one is appended with its accumulated weight; burn_in_left
\* starts at b+1, only decreases and never goes below 0.
C6_BurnInState ==
    \A c \in Ranks :
        LET b == cfg.o.burn_in
            a == obs[c].accepted
        IN  /\ chain[c].burn_in_left >= 0
            /\ chain[c].burn_in_left = (IF a >= b + 1 THEN 0 ELSE b + 1 - a)
            /\ Len(chain[c].collection) = (IF a >= b + 1 THEN a - (b + 1) ELSE 0)

C6_BurnInStep ==
    \A c \in Ranks :
        /\ chain'[c].burn_in_left <= chain[c].burn_in_left
        /\ obs'[c].accepted = obs[c].accepted + 1 =>
                IF obs[c].accepted >= cfg.o.burn_in + 1
                THEN chain'[c].collection =
                         Append(chain[c].collection, chain[c].current_point)
                ELSE chain'[c].collection = chain[c].collection

C6_BurnIn ==
    /\ \A c \in Ranks : chain[c].burn_in_left = cfg.o.burn_in + 1
    /\ []C6_BurnInState
    /\ [][C6_BurnInStep]_vars

C6_Witness ==
    /\ cfg.o.burn_in = 1
    /\ obs[0].accepted = 3
    /\ Len(chain[0].collection) = 1
    /\ chain[0].collection[1].weight >= 2

\* C7: an engine is invoked only while the collection is shorter than
\* effective_max_samples and the chain has not converged; so the collection
\* never holds more than ceil(effective_max_samples) points, and a run that
\* returns has reached effective_max_samples or has converged.
C7_EngineStarts(c) ==
    \/ StepEnds(c) /\ chain[c].pc = "loop"
    \/ chain[c].pc = "loop" /\ chain'[c].pc = "drag"

C7_LoopBoundState ==
    \A c \in Ranks :
        /\ Len(chain[c].collection) >= 1 =>
               (Len(chain[c].collection) - 1) * cfg.d.ems_den < cfg.d.ems_num
        /\ chain[c].pc = "done" =>
               \/ Len(chain[c].collection) * cfg.d.ems_den >= cfg.d.ems_num
               \/ chain[c].converged

C8_SerialNeverConverges ==
    \A c \in Ranks :
        /\ ~chain[c].converged
        /\ chain[c].pc = "done" =>
               Len(chain[c].collection) * cfg.d.ems_den >= cfg.d.ems_num

C8_Witness ==
    /\ chain[0].pc = "done"
    /\ obs[0].entered >= 2

(***************************************************************************)
(* Properties of the parallel checkpoints.                                 *)
(***************************************************************************)
BelowStop(Rminus1) == FGt(Fin(cfg.o.Rminus1_stop), Rminus1)

\* C9: a checkpoint sets converged only if its R-1 of means is below
\* Rminus1_stop, the immediately preceding checkpoint went through and had its
\* R-1 below Rminus1_stop too, and the bounds statistic is below
\* Rminus1_cl_stop; never at the first checkpoint, and a skipped preceding
\* checkpoint does not count.
C9_ConvergedTwiceInARow ==
    ckpt.last.kind = "checkpoint" /\ ckpt.last.sets_converged =>
        /\ ckpt.last.success
        /\ BelowStop(ckpt.last.Rminus1)
        /\ FGt(Fin(cfg.o.Rminus1_cl_stop), ckpt.last.Rminus1_cl)
        /\ ckpt.prev.kind = "checkpoint"
        /\ ckpt.prev.success
        /\ BelowStop(ckpt.prev.Rminus1)

\* a chain is inside a collective of the checkpoint: the barrier of
\* check_all_ready or the gather/bcast of check_convergence_and_learn_proposal
InCollective(c) == chain[c].pc \in {"barrier", "checkpoint"}

\* C11: under fair scheduling no chain stays blocked forever in a checkpoint
\* collective: a chain that is in one eventually leaves it (and so goes on
\* to terminate by max samples, convergence or a stuck-chain failure).
C11_NoChainBlockedForever ==
    \A c \in MPIRanks : InCollective(c) ~> ~InCollective(c)

\* a checkpoint goes through in this step and its Cholesky factorisation fails
CheckpointFails ==
    /\ ckpt'.count = ckpt.count + 1
    /\ ~ckpt'.last.success

\* C12: a checkpoint whose Cholesky factorisation fails is skipped: no
\* exception is raised, converged and Rminus1_last keep their values and the
\* proposal covariance of every chain is left as it was, and the chains go
\* on sampling.
C12_FailedCheckpointSkipped ==
    [][CheckpointFails =>
        \A c \in Ranks :
            /\ chain'[c].pc = "loop"
            /\ chain'[c].converged = chain[c].converged
            /\ chain'[c].Rminus1_last = chain[c].Rminus1_last
            /\ chain'[c].proposal_covmat = chain[c].proposal_covmat]_vars

\* set_covariance is called on chain c in this step (the matrix it installs is
\* tagged with its origin and the length of the collection it was learned from)
CovarianceSet(c) == chain'[c].proposal_covmat # chain[c].proposal_covmat

\* C13: set_covariance is called at a checkpoint only if learn_proposal is
\* true and the chain is not converged after the checkpoint's test; under MPI
\* only if the R-1 computed at that checkpoint lies strictly between
\* learn_proposal_Rminus1_min and learn_proposal_Rminus1_max, and the matrix is
\* the mean of covariances; without MPI no R-1 gate applies and the matrix is
\* the chain's own covariance.
C13_LearnOnlyWhenAllowed ==
    [][\A c \in Ranks :
        CovarianceSet(c) =>
            /\ cfg.o.learn_proposal
            /\ ~chain'[c].converged
            /\ IF get_mpi
               THEN /\ ckpt'.count = ckpt.count + 1
                    /\ ckpt'.last.success
                    /\ FGt(Fin(cfg.d.learn_proposal_Rminus1_max), ckpt'.last.Rminus1)
                    /\ FGt(ckpt'.last.Rminus1, Fin(cfg.o.learn_proposal_Rminus1_min))
                    /\ chain'[c].proposal_covmat.source = "mean_of_covs"
               ELSE chain'[c].proposal_covmat.source = "own_cov"]_vars

\* the names the external covmat carries
ExternalNames ==
    CASE cfg.o.covmat.kind = "file" -> cfg.o.covmat.names
      [] cfg.o.covmat.kind = "array" -> cfg.o.covmat.covmat_params
      [] OTHER -> <<>>

\* the external covmat's entry for a pair of parameters it names
ExternalCov(p, q) ==
    LET pos(x) == CHOOSE k \in 1 .. Len(ExternalNames) : ExternalNames[k] = x
    IN  cfg.o.covmat.matrix[pos(p)][pos(q)]

\* the external covmat is absent or passes every requirement made of it
ValidExternalCovmat ==
    LET c == cfg.o.covmat
    IN  \/ c.kind = "none"
        \/ /\ c.kind = "file" => c.readable /\ c.header = "#"
           /\ ExternalNames # <<>>
           /\ Cardinality(SeqRange(ExternalNames)) = Len(ExternalNames)
           /\ Len(ExternalNames) = Len(c.matrix)
           /\ Symmetric(c.matrix)
           /\ AllEigvalsPositive(c.matrix)
           /\ SeqRange(ExternalNames) \cap SeqRange(cfg.o.params) # {}

\* the variance the priority rule gives a sampled parameter
PriorityVariance(p) ==
    LET info == cfg.o.info[p]
    IN  IF p \in SeqRange(ExternalNames) THEN Fin(ExternalCov(p, p))
        ELSE IF info.proposal.k # "nan" THEN Fin(info.proposal.v * info.proposal.v)
        ELSE IF info.ref.k # "nan" THEN info.ref
        ELSE info.prior

\* the matrix the priority rule gives: loaded entries for the named pairs,
\* the priority variances on the rest of the diagonal, 0 elsewhere
PriorityCovmat ==
    LET params == cfg.o.params
        entry(p, q) ==
            IF p = q THEN PriorityVariance(p)
            ELSE IF {p, q} \subseteq SeqRange(ExternalNames) THEN Fin(ExternalCov(p, q))
            ELSE Fin(0)
    IN  [ij \in (1 .. Len(params)) \X (1 .. Len(params)) |->
            entry(params[ij[1]], params[ij[2]])]

\* initialise() has run and its mode validation has passed, so that the
\* covariance assembly was entered
AssemblyEntered == chain[0].pc # "new" /\ cfg.d.proposer

\* C14: for every set of sampled parameters and every valid external covmat,
\* the matrix is assembled and has, for each sampled parameter, the loaded
\* variance if the covmat names it, else the square of its proposal width,
\* else the reference variance, else the prior variance; a pair both named by
\* the covmat has the loaded covariance and every other off-diagonal entry is 0
C14_AssembledByPriority ==
    (AssemblyEntered /\ ValidExternalCovmat) =>
        /\ cfg.d.covariance_set
        /\ cfg.d.covmat = PriorityCovmat

\* the covmat over a, b = 10/1/20 and c with proposal width 2 has given
\* [[10,1,0],[1,20,0],[0,0,4]]
C14_Witness ==
    /\ AssemblyEntered
    /\ cfg.o.covmat.kind = "file"
    /\ ExternalNames = <<"a", "b">>
    /\ cfg.o.covmat.matrix = <<<<10, 1>>, <<1, 20>>>>
    /\ cfg.o.info["c"].proposal = Fin(2)
    /\ cfg.d.covariance_set
    /\ cfg.d.covmat = [ij \in (1 .. 3) \X (1 .. 3) |->
                          Fin(<<<<10, 1, 0>>, <<1, 20, 0>>, <<0, 0, 4>>>>[ij[1]][ij[2]])]

\* the ways an external covmat can be wrong
Unreadable == cfg.o.covmat.kind = "file" /\ ~cfg.o.covmat.readable
BadFirstLine ==
    cfg.o.covmat.kind = "file" /\ cfg.o.covmat.readable /\ cfg.o.covmat.header # "#"
WithoutCovmatParams == cfg.o.covmat.kind = "array" /\ cfg.o.covmat.covmat_params = <<>>
Loadable ==
    /\ cfg.o.covmat.kind # "none"
    /\ ~(Unreadable \/ BadFirstLine \/ WithoutCovmatParams)
DuplicateNames ==
    Loadable /\ Cardinality(SeqRange(ExternalNames)) # Len(ExternalNames)
WrongNameCount == Loadable /\ Len(ExternalNames) # Len(cfg.o.covmat.matrix)
NotSymmetric == Loadable /\ ~Symmetric(cfg.o.covmat.matrix)
NotPositiveDefinite ==
    Loadable /\ Symmetric(cfg.o.covmat.matrix) /\ ~AllEigvalsPositive(cfg.o.covmat.matrix)
NoSharedName ==
    Loadable /\ SeqRange(ExternalNames) \cap SeqRange(cfg.o.params) = {}

InvalidExternalCovmat ==
    \/ Unreadable
    \/ BadFirstLine
    \/ WithoutCovmatParams
    \/ DuplicateNames
    \/ WrongNameCount
    \/ NotSymmetric
    \/ NotPositiveDefinite
    \/ NoSharedName

\* the assembly has ended in a configuration error: no matrix, no call of
\* proposer.set_covariance, no run
FailedAsConfigurationError ==
    /\ cfg.d.exception = "HandledException"
    /\ cfg.d.covmat = <<>>
    /\ ~cfg.d.covariance_set
    /\ chain[0].pc = "config_error"
    /\ chain[0].proposal_covmat.source = "none"
    /\ obs[0].entered = 0

\* C15: whenever the external covmat is unreadable, has a first line that does
\* not start with #, has duplicate names, a name count different from the
\* matrix dimension, is not symmetric, is not positive-definite, shares no
\* name with the sampled parameters or is given in memory without
\* covmat_params, the assembly fails with a configuration error, returns no
\* matrix and proposer.set_covariance is never reached
C15_InvalidCovmatIsConfigurationError ==
    (AssemblyEntered /\ InvalidExternalCovmat) => FailedAsConfigurationError

\* a matrix in memory that is not symmetric has been refused
C15_Witness ==
    /\ AssemblyEntered
    /\ cfg.o.covmat.kind = "array"
    /\ NotSymmetric
    /\ FailedAsConfigurationError

\* what the options request
DragRequested == cfg.o.drag_nfast_times[1] # 0 \/ cfg.o.drag_interp_steps # 0
AllSpeedsEqual == Cardinality(SeqRange(cfg.o.speeds)) = 1
\* all the oversampling factors round(speed / speeds[0]) are equal
AllFactorsEqual ==
    \A i \in 1 .. Len(cfg.o.speeds) :
        Round(cfg.o.speeds[i], cfg.o.speeds[1]) = Round(cfg.o.speeds[1], cfg.o.speeds[1])

\* the configurations that are to be refused
ModeConflict == cfg.o.oversample /\ DragRequested
BothDragOptions == cfg.o.drag_nfast_times[1] # 0 /\ cfg.o.drag_interp_steps # 0
NoSpeedHierarchy == (cfg.o.oversample \/ DragRequested) /\ AllSpeedsEqual
MaxSpeedSlowOutside ==
    /\ DragRequested
    /\ ~(/\ SetMin(SeqRange(cfg.o.speeds)) <= cfg.o.max_speed_slow
         /\ cfg.o.max_speed_slow < SetMax(SeqRange(cfg.o.speeds)))
RefusedAsStated ==
    ModeConflict \/ BothDragOptions \/ NoSpeedHierarchy \/ MaxSpeedSlowOutside
RefusedByFactors == cfg.o.oversample /\ AllFactorsEqual

RequestedMode ==
    IF cfg.o.oversample THEN "oversample"
    ELSE IF DragRequested THEN "drag"
    ELSE "plain"

\* a step of initialise() that ends in a configuration error before the
\* proposer is built and before any point is drawn
RefusedStep ==
    /\ cfg'.d.exception = "HandledException"
    /\ ~cfg'.d.proposer
    /\ chain'[0].pc = "config_error"
    /\ chain'[0].current_point = chain[0].current_point
    /\ obs'[0].entered = 0

\* a step of initialise() that selects the requested mode
SelectedStep ==
    /\ cfg'.d.proposer
    /\ cfg'.d.mode = RequestedMode
    /\ cfg'.d.engine = IF RequestedMode = "drag" THEN "dragging" ELSE "metropolis"

\* after initialise() neither the mode nor the engine changes
ModeKept ==
    /\ cfg'.d.mode = cfg.d.mode
    /\ cfg'.d.proposer = cfg.d.proposer
    /\ cfg.d.proposer => cfg'.d.engine = cfg.d.engine

OversampledTotal ==
    SeqSum([i \in 1 .. Len(cfg.o.blocks) |->
               Len(cfg.o.blocks[i]) * Round(cfg.o.speeds[i], cfg.o.speeds[1])])

\* C17: in oversampling mode effective_max_samples (the fraction
\* ems_num / ems_den) equals (sum over blocks b of |b| * f_b) / d, with d the
\* number of sampled parameters; in plain and dragging modes it equals
\* max_samples
C17_EffectiveMaxSamples ==
    (chain[0].pc # "new" /\ cfg.d.proposer) =>
        IF cfg.d.mode = "oversample"
        THEN cfg.d.ems_num * Len(cfg.o.params) = OversampledTotal * cfg.d.ems_den
        ELSE cfg.d.ems_num = cfg.o.max_samples * cfg.d.ems_den

\* d = 2, blocks [[0],[1]], factors [1,4] have given 5/2
C17_Witness ==
    /\ chain[0].pc # "new"
    /\ cfg.d.proposer
    /\ cfg.d.mode = "oversample"
    /\ cfg.o.blocks = <<<<0>>, <<1>>>>
    /\ cfg.o.speeds = <<1, 4>>
    /\ cfg.d.ems_num * 2 = 5 * cfg.d.ems_den

\* the last engine invocation of chain c has returned
EngineReturned(c) == obs[c].steps > 0 /\ chain[c].pc # "error"

\* C18 (as stated): after each engine invocation in the main loop the
\* registered callback is invoked if and only if the collection length modulo
\* callback_every is 0 and the current point's weight is 1, iterations of the
\* burn-in with a collection of length 0 included
C18_CallbackAsStated ==
    \A c \in Ranks :
        EngineReturned(c) =>
            (obs[c].cb <=> /\ n(chain[c]) % cfg.o.callback_every = 0
                           /\ chain[c].current_point.weight = 1)

\* C18 (amended): the callback is invoked if and only if max(length, 1) modulo
\* callback_every is 0 and the current point's weight is 1; while the
\* collection is empty it is invoked only if callback_every is 1
C18_CallbackEvery ==
    \A c \in Ranks :
        EngineReturned(c) =>
            (obs[c].cb <=>
                /\ chain[c].current_point.weight = 1
                /\ IF n(chain[c]) = 0 THEN cfg.o.callback_every = 1
                   ELSE n(chain[c]) % cfg.o.callback_every = 0)

\* with callback_every = 2 a point of weight 1 has been accepted during the
\* burn-in, the collection still being empty, and the callback has not been
\* invoked
C18_Witness ==
    \E c \in Ranks :
        /\ EngineReturned(c)
        /\ cfg.o.callback_every = 2
        /\ cfg.o.burn_in = 1
        /\ chain[c].burn_in_left > 0
        /\ chain[c].current_point.weight = 1
        /\ n(chain[c]) = 0
        /\ ~obs[c].cb

\* chain 0 is about to invoke the dragging engine with drag_interp_steps = 0
DegenerateDrag ==
    /\ chain[0].pc = "loop"
    /\ loop_condition(chain[0])
    /\ cfg.d.engine = "dragging"
    /\ cfg.d.drag_interp_steps = 0

\* chain 0 has taken one iteration of the main loop with the Metropolis engine
\* on a trial that differs from the current point in the slow coordinate only
SlowMetropolisStep ==
    \E trial \in Reach, e \in ExpDraws, progress \in Progress, st \in Stats :
        /\ trial[2] = chain[0].current_point.values[2]
        /\ chain'[0] =
              iteration_end(get_new_sample_metropolis(chain[0], trial, e).self,
                            0, progress, st)

\* C19: a dragging step with drag_interp_steps = 0 behaves exactly like one
\* Metropolis step restricted to the slow subspace (one slow proposal, one
\* posterior evaluation, acceptance by the Metropolis rule on the two
\* log-posteriors); it makes no fast evaluation and raises no error
C19_DegenerateDragIsMetropolis ==
    [][(DegenerateDrag /\ chain' # chain) =>
          /\ chain'[0].pc \notin {"crash", "error", "drag"}
          /\ SlowMetropolisStep]_vars

\* the dragging engine has been invoked with drag_interp_steps = 0 on a slow
\* proposal whose log-posterior is not -inf
C19_Witness ==
    /\ cfg.d.engine = "dragging"
    /\ cfg.d.drag_interp_steps = 0
    /\ chain[0].pc = "crash"

\* chain 0 is about to make the test of the TOTAL step of a dragging iteration
AtTotalTest ==
    /\ chain[0].pc = "drag"
    /\ chain[0].drag.i_step > cfg.d.drag_interp_steps

\* C20: in a dragging step with n = drag_interp_steps >= 1 the TOTAL acceptance
\* test is the Metropolis rule applied to (S_end/n, S_start/n), S_start and
\* S_end being the sums over the n interpolating steps only of the
\* log-posteriors of the start and end extremes after each step
C20_TotalTestOnPathMeans ==
    [][(AtTotalTest /\ chain' # chain) =>
          obs'[0].last.accept =
              metropolis_accept(
                  FScale(1, cfg.d.drag_interp_steps, obs[0].S_end),
                  FScale(1, cfg.d.drag_interp_steps, obs[0].S_start),
                  obs'[0].last.e)]_vars

\* a TOTAL test has been made after two interpolating steps
C20_Witness ==
    /\ cfg.d.drag_interp_steps = 2
    /\ obs[0].last.kind = "total"
    /\ obs[0].last.accept

\* chain 0 invokes the dragging engine
DragInvoked ==
    /\ chain[0].pc = "loop"
    /\ loop_condition(chain[0])
    /\ cfg.d.engine = "dragging"
    /\ chain' # chain

\* the slow proposal just made has the log-posterior -inf
SlowProposalAtMinusInf ==
    /\ obs'[0].last.kind \in {"slow", "proposed"}
    /\ FEq(obs'[0].last.logp_trial, NINF)

\* C21: in a dragging step, if the slow proposal's log-posterior is -inf then
\* exactly one posterior evaluation is made in that step, no get_proposal_fast
\* draw and no fast evaluation happens, and the current point's weight is
\* incremented by 1
C21_SlowMinusInfRejectedAtOnce ==
    [][(DragInvoked /\ SlowProposalAtMinusInf) =>
          /\ chain'[0].pc \notin {"drag", "crash", "error"}
          /\ obs'[0].steps = obs[0].steps + 1
          /\ obs'[0].evaluations = 1
          /\ obs'[0].fast_draws = 0
          /\ chain'[0].current_point =
                [chain[0].current_point EXCEPT !.weight = @ + 1]]_vars

\* a dragging step has ended on a slow proposal at -inf after one evaluation
C21_Witness ==
    /\ cfg.d.engine = "dragging"
    /\ obs[0].last.kind = "slow"
    /\ FEq(obs[0].last.logp_trial, NINF)
    /\ obs[0].evaluations = 1
    /\ obs[0].fast_draws = 0
    /\ chain[0].current_point.weight >= 2

\* the interpolation of two log-posteriors with the fraction i/(n+1)
Interpolated(i, steps, at_start, at_end) ==
    FAdd(FScale(steps + 1 - i, steps + 1, at_start), FScale(i, steps + 1, at_end))

\* chain 0 takes an interpolating step of a dragging iteration
SubStep ==
    /\ chain[0].pc = "drag"
    /\ chain'[0].pc = "drag"
    /\ chain'[0].drag.i_step = chain[0].drag.i_step + 1

\* the Metropolis rule passes, for some exponential draw, on the values that
\* the interpolating step just taken has proposed
SubStepRulePasses ==
    \E e \in ExpDraws :
        metropolis_accept(
            Interpolated(chain[0].drag.i_step, cfg.d.drag_interp_steps,
                         obs'[0].last.proposal_start_logpost,
                         obs'[0].last.proposal_end_logpost),
            Interpolated(chain[0].drag.i_step, cfg.d.drag_interp_steps,
                         chain[0].drag.current_start_logpost,
                         chain[0].drag.current_end_logpost),
            e)

\* both extremes have moved by the same fast step, with the log-posteriors
\* proposed for them
MovedTogether ==
    \E delta_fast \in FastDeltas :
        /\ chain'[0].drag.current_start_point =
              plus_fast(chain[0].drag.current_start_point, delta_fast)
        /\ chain'[0].drag.current_end_point =
              plus_fast(chain[0].drag.current_end_point, delta_fast)

NeitherMoved ==
    /\ chain'[0].drag.current_start_point = chain[0].drag.current_start_point
    /\ chain'[0].drag.current_end_point = chain[0].drag.current_end_point
    /\ chain'[0].drag.current_start_logpost = chain[0].drag.current_start_logpost
    /\ chain'[0].drag.current_end_logpost = chain[0].drag.current_end_logpost
    /\ chain'[0].drag.derived = chain[0].drag.derived

\* end - start is the slow displacement, and what is cached for the end
\* extreme is what the evaluator gives at its position
ExtremesConsistent(self) ==
    LET dr == self.drag
    IN  /\ \A k \in 1 .. 2 :
              dr.current_end_point[k] - dr.current_start_point[k] =
                  dr.end_slow_point[k] - self.current_point.values[k]
        /\ dr.current_end_logpost = logposterior(dr.current_end_point)
        /\ dr.derived = derived_at(dr.current_end_point)

\* C22: through the sub-steps of a dragging step the extremes move together:
\* a sub-step is accepted only if both proposed log-posteriors are finite and
\* the Metropolis rule passes on the values interpolated with i/(n+1); on
\* acceptance both extremes move by the same fast step, otherwise neither
\* changes; end - start stays the slow displacement and the end extreme's
\* cached values are those evaluated at its position
C22_ExtremesMoveTogether ==
    [][/\ SubStep =>
             IF obs'[0].last.accept
             THEN /\ IsFinite(obs'[0].last.proposal_start_logpost)
                  /\ IsFinite(obs'[0].last.proposal_end_logpost)
                  /\ SubStepRulePasses
                  /\ MovedTogether
             ELSE NeitherMoved
       /\ chain'[0].pc = "drag" => ExtremesConsistent(chain'[0])]_vars

\* a sub-step has been accepted and has moved both extremes
C22_Witness ==
    /\ chain[0].pc = "drag"
    /\ obs[0].last.kind = "drag"
    /\ obs[0].last.accept
    /\ chain[0].drag.current_start_point # chain[0].current_point.values
    /\ ExtremesConsistent(chain[0])

\* chain c takes an iteration of the main loop
LoopIteration(c) ==
    /\ chain[c].pc = "loop"
    /\ loop_condition(chain[c])
    /\ chain'[c] # chain[c]

\* the iteration chain c has taken has invoked the engine
EngineInvoked(c) ==
    \E trial \in MPIProposals, e \in MPIDraws :
        LET r == get_new_sample_metropolis(chain[c], trial, e).self
        IN  /\ chain'[c].current_point = r.current_point
            /\ chain'[c].collection = r.collection

\* C23: a chain that has signalled readiness while others have not keeps
\* invoking its engine on every iteration of the main loop and only polls the
\* non-blocking all-gather; it does not block before the all-gather has
\* completed, and then it enters the synchronous checkpoint in that same
\* iteration
C23_ReadyChainKeepsSampling ==
    /\ [](\A c \in Ranks :
            (chain[c].pc = "loop" /\ chain[c].has_req /\ loop_condition(chain[c]))
                => ENABLED Metropolis(c, MPIProposals, MPIDraws, FALSE))
    /\ [][\A c \in Ranks :
            /\ LoopIteration(c) =>
                  /\ EngineInvoked(c)
                  /\ chain'[c].pc \in {"loop", "barrier", "error"}
                  /\ chain'[c].pc = "barrier" =>
                        Iallgather_complete(c, chain'[c].posts)
                  /\ (chain[c].has_req /\ chain'[c].pc = "loop") =>
                        /\ chain'[c].has_req
                        /\ chain'[c].posts = chain[c].posts
            /\ (chain[c].pc = "barrier" /\ chain'[c] # chain[c]) =>
                  /\ chain'[c].pc = "checkpoint"
                  /\ chain'[c].current_point = chain[c].current_point
                  /\ chain'[c].collection = chain[c].collection]_vars

\* chain 0 has signalled readiness and has had a step rejected since, while
\* chain 1 has not signalled yet
C23_Witness ==
    /\ chain[0].pc = "loop"
    /\ chain[0].has_req
    /\ chain[0].current_point.weight >= 2
    /\ chain[1].posts < chain[0].posts

\* a parallel checkpoint completes in this step
CheckpointCompletes == ckpt'.count = ckpt.count + 1

\* chain c takes part in the covariance broadcast of the checkpoint
JoinsCovarianceBroadcast(c) ==
    chain'[c].proposal_covmat # chain[c].proposal_covmat

\* C24: after every completed parallel checkpoint all chains agree on its
\* outcome: the same success flag, the same Rminus1_last and converged flag,
\* the same learn-or-skip decision, and after a learning broadcast the same
\* proposal covariance.
C24_ChainsAgreeAfterCheckpoint ==
    [][CheckpointCompletes =>
        \A c, r \in Ranks :
            /\ ckpt'.last.success =>
                    chain'[c].Rminus1_last = ckpt'.last.Rminus1
            /\ chain'[c].Rminus1_last = chain'[r].Rminus1_last
            /\ chain'[c].converged = chain'[r].converged
            /\ chain'[c].pc = chain'[r].pc
            /\ JoinsCovarianceBroadcast(c) <=> JoinsCovarianceBroadcast(r)
            /\ JoinsCovarianceBroadcast(c) =>
                    chain'[c].proposal_covmat = chain'[r].proposal_covmat]_vars

\* a learning broadcast has gone through between chains whose collections
\* differ in length
C24_Witness ==
    /\ ckpt.count >= 1
    /\ ckpt.last.success
    /\ n(chain[0]) # n(chain[1])
    /\ \A c \in Ranks :
        /\ chain[c].pc = "loop"
        /\ chain[c].proposal_covmat.source = "mean_of_covs"
        /\ chain[c].Rminus1_last = ckpt.last.Rminus1

\* the sampled parameters the external covmat does not supply
MissingParams ==
    {p \in SeqRange(cfg.o.params) : p \notin SeqRange(ExternalNames)}

\* a diagonal entry has been filled from a declared proposal width
FilledFromWidth ==
    \E p \in MissingParams : cfg.o.info[p].proposal.k # "nan"

\* the operational learn_proposal_Rminus1_max has its early value
SwitchedToEarly ==
    cfg.d.learn_proposal_Rminus1_max = cfg.o.learn_proposal_Rminus1_max_early

\* the operational learn_proposal_Rminus1_max has its configured value
KeptConfigured ==
    cfg.d.learn_proposal_Rminus1_max = cfg.o.learn_proposal_Rminus1_max

\* C25 as stated: the operational learn_proposal_Rminus1_max is switched to
\* its early value exactly when a diagonal entry was filled from a declared
\* proposal width; it keeps its configured value when the external covmat
\* supplies every sampled parameter or no missing parameter declares a width.
C25_EarlyAsStated ==
    cfg.d.covariance_set =>
        /\ SwitchedToEarly <=> FilledFromWidth
        /\ ~FilledFromWidth => KeptConfigured

\* C25: the operational learn_proposal_Rminus1_max is switched to its early
\* value exactly when the external covmat leaves a sampled parameter
\* without a variance, whether or not that parameter declares a proposal
\* width; it keeps its configured value when the external covmat supplies
\* every sampled parameter.
C25_EarlyWhenIncomplete ==
    cfg.d.covariance_set =>
        /\ SwitchedToEarly <=> MissingParams # {}
        /\ MissingParams = {} => KeptConfigured

\* an external covmat leaves out parameters none of which declares a width,
\* and the assembly has switched to the early value
C25_Witness ==
    /\ cfg.d.covariance_set
    /\ cfg.o.covmat.kind = "file"
    /\ MissingParams # {}
    /\ ~FilledFromWidth
    /\ SwitchedToEarly
    /\ ~KeptConfigured

\* the diagonal of the matrix initial_proposal_covmat has returned
ReturnedDiagonal ==
    [i \in 1 .. Len(cfg.o.params) |-> cfg.d.covmat[<<i, i>>]]

\* C26: whenever initial_proposal_covmat returns, every diagonal entry of the
\* returned matrix is strictly positive and no entry is NaN, whatever the
\* external covmat, the declared proposal widths (a width of 0 included) and
\* the reference and prior variances.
C26_DiagonalPositiveNoNaN ==
    cfg.d.covariance_set =>
        /\ \A ij \in DOMAIN cfg.d.covmat : cfg.d.covmat[ij].k # "nan"
        /\ \A i \in 1 .. Len(cfg.o.params) :
                FGt(ReturnedDiagonal[i], Fin(0))

\* without an external covmat, parameter b declares a proposal width of 0 and
\* the matrix returned has a zero on its diagonal
C26_Witness ==
    /\ cfg.d.covariance_set
    /\ cfg.o.covmat.kind = "none"
    /\ cfg.o.params = <<"a", "b", "c">>
    /\ cfg.o.info["b"].proposal = Fin(0)
    /\ ReturnedDiagonal[2] = Fin(0)

\* every point of chain c's collection has been flushed to the output
AllFlushed(c) == chain[c].flushed = Len(chain[c].collection)

\* run() of chain c has ended, normally or by the stuck-chain failure
RunEnded(c) == chain[c].pc \in {"done", "error"}

\* C27: the collection is flushed each time an append makes its length a
\* multiple of output_every, once more when the main loop ends normally, and
\* before a stuck-chain error is raised; so whenever run ends, normally or by
\* the stuck-chain failure, every point in the collection has been flushed.
C27_FlushedWhenRunEnds ==
    /\ [](\A c \in Ranks : RunEnded(c) => AllFlushed(c))
    /\ [][\A c \in Ranks :
            /\ (/\ Len(chain'[c].collection) = Len(chain[c].collection) + 1
                /\ Len(chain'[c].collection) % cfg.o.output_every = 0)
                    => chain'[c].flushed = Len(chain'[c].collection)
            /\ (~RunEnded(c) /\ chain'[c].pc \in {"done", "error"})
                    => chain'[c].flushed = Len(chain'[c].collection)
            /\ chain'[c].flushed >= chain[c].flushed
            /\ chain'[c].flushed <= Len(chain'[c].collection)]_vars

\* the chain has failed as stuck with a collection whose length is not a
\* multiple of output_every, and all of it is flushed
C27_Witness ==
    /\ chain[0].pc = "error"
    /\ Len(chain[0].collection) % cfg.o.output_every # 0
    /\ AllFlushed(0)

\* an engine invocation of chain c ends in this step with a rejection, or with
\* an acceptance
StepRejected(c) == StepEnds(c) /\ ~obs'[c].last.accept
StepAccepted(c) == StepEnds(c) /\ obs'[c].last.accept

\* a step of chain c inside an engine invocation that does not end in it
WithinStep(c) ==
    /\ chain[c].pc \in {"loop", "drag"}
    /\ ~StepEnds(c)
    /\ chain'[c] # chain[c]

Weight(c) == chain[c].current_point.weight
WeightAfter(c) == chain'[c].current_point.weight

\* run() seats the initial point of chain c in this step
InitialPointSeated(c) == chain[c].pc = "start" /\ chain'[c].pc # "start"

\* C29: immediately after any engine invocation, Metropolis or dragging, the
\* current point's weight is 1 if and only if that invocation accepted its
\* step; the weight is always >= 1 and is 1 plus the number of consecutive
\* rejections since the point became current: 1 when it is seated, one more
\* with each rejection, and nothing else changes it.
C29_WeightCountsRejections ==
    /\ [](\A c \in Ranks : Seated(c) => Weight(c) >= 1)
    /\ [][\A c \in Ranks :
            /\ StepEnds(c) => (WeightAfter(c) = 1 <=> obs'[c].last.accept)
            /\ InitialPointSeated(c) => WeightAfter(c) = 1
            /\ StepAccepted(c) => WeightAfter(c) = 1
            /\ StepRejected(c) => WeightAfter(c) = Weight(c) + 1
            /\ (Seated(c) /\ ~StepEnds(c)) => WeightAfter(c) = Weight(c)]_vars

\* a dragging step has been accepted after its predecessor was rejected, and
\* the point it seated has since been rejected once
C29_Witness ==
    /\ cfg.d.engine = "dragging"
    /\ obs[0].accepted >= 1
    /\ obs[0].steps >= 3
    /\ obs[0].last.kind = "total"
    /\ ~obs[0].last.accept
    /\ Weight(0) = 2

\* initialise() has run on a request for oversampling alone
OversamplingRequested ==
    /\ chain[0].pc # "new"
    /\ cfg.o.oversample
    /\ ~DragRequested

\* initialise() has refused the mode
ModeRefused == cfg.d.exception = "HandledException" /\ ~cfg.d.proposer

\* round(speed_b / min(speeds)) for each block b
FactorsOverMin ==
    [i \in 1 .. Len(cfg.o.speeds) |->
        Round(cfg.o.speeds[i], SetMin(SeqRange(cfg.o.speeds)))]

Posts(c) == chain'[c].posts # chain[c].posts

\* the checkpoint rounds chain c has gone through: it has entered the
\* checkpoint of the round and that checkpoint has completed
RoundsDone(c) ==
    IF chain[c].pc = "checkpoint" THEN obs[c].entered - 1 ELSE obs[c].entered

\* C31: in a parallel run each chain posts its readiness all-gather at most
\* once per checkpoint round: while a request is outstanding no second one is
\* posted, and a new one is posted only after the previous one completed and
\* the chain went through that round's checkpoint; so the chains post the
\* same number of all-gathers per round.
C31_OnePostPerRound ==
    /\ [](\A c \in Ranks :
            /\ chain[c].has_req => chain[c].posts = obs[c].entered + 1
            /\ chain[c].posts \in {obs[c].entered, obs[c].entered + 1}
            /\ chain[c].posts \in {ckpt.count, ckpt.count + 1}
            /\ \A r \in Ranks :
                    (obs[c].entered >= 1 /\ obs[r].entered >= obs[c].entered)
                        => chain[r].posts >= obs[c].entered)
    /\ [][\A c \in Ranks :
            Posts(c) =>
                /\ chain'[c].posts = chain[c].posts + 1
                /\ ~chain[c].has_req
                /\ chain[c].pc = "loop"
                /\ RoundsDone(c) = chain[c].posts
                /\ ckpt.count = chain[c].posts]_vars

\* chain 0 is just ready again while its first request is outstanding, chain
\* 1 not having posted, and has posted only once
C31_Witness ==
    /\ chain[0].pc = "loop"
    /\ chain[0].has_req
    /\ chain[0].posts = 1
    /\ chain[1].posts = 0
    /\ just_ready(chain[0])
    /\ n(chain[0]) > cfg.o.check_every_dimension_times * cfg.d.n_slow

\* C10: no chain enters the checkpoint of a round before every chain has
\* signalled readiness for that round, and a chain signals readiness only with
\* a collection that is not empty, whose length is a multiple of
\* check_every_dimension_times * n_slow, and a current point of weight 1.
C10_EnteredAfterAllPosted ==
    \A c, r \in Ranks : obs[c].entered <= chain[r].posts

C10_PostsWhenReady ==
    \A c \in Ranks :
        chain'[c].posts = chain[c].posts + 1 =>
            /\ Len(chain'[c].collection) > 0
            /\ chain'[c].current_point.weight = 1
            /\ Len(chain'[c].collection)
                   % (cfg.o.check_every_dimension_times * cfg.d.n_slow) = 0

C10_CheckpointAfterAllReady ==
    /\ []C10_EnteredAfterAllPosted
    /\ [][C10_PostsWhenReady]_vars

\* a chain in its second checkpoint while the other one, which got there too,
\* has kept sampling in between
C10_Witness ==
    /\ obs[0].entered = 2
    /\ chain[0].pc = "checkpoint"
    /\ chain[1].pc = "barrier"
    /\ Len(chain[1].collection) > Len(chain[0].collection)

====
